---------------------------- MODULE Spec2Model ----------------------------
(***************************************************************************)
(* ShipStation order processor (automator_new.py): edge-case               *)
(* classification, packaging estimate, rate shopping and tagging of one    *)
(* batch run.                                                              *)
(*                                                                         *)
(* Python strings that are inspected character by character (upper(),      *)
(* lower(), startswith, substring tests) are sequences of one-character    *)
(* strings.  Weights are whole ounces, costs are whole cents.              *)
(* A JSON field that may be missing is a record [k, v]: k = "absent" (key  *)
(* not in the dict), "null" (key present, value None) or "val".            *)
(* An HTTP answer is its status class and body; an exception raised by     *)
(* requests is modelled for the rate requests, where it ends the script.   *)
(***************************************************************************)
EXTENDS Integers, Sequences, FiniteSets, TLC

-----------------------------------------------------------------------------
(* String literals                                                         *)

KW_EXPEDITED ==
  << <<"2","d","a","y">>,
     <<"2","-","d","a","y">>,
     <<"t","w","o"," ","d","a","y">>,
     <<"e","x","p","r","e","s","s">>,
     <<"e","x","p","e","d","i","t","e","d">>,
     <<"p","r","i","o","r","i","t","y","_","o","v","e","r","n","i","g","h","t">>,
     <<"u","p","s","_","2","n","d","_","d","a","y">>,
     <<"u","p","s"," ","s","e","c","o","n","d">>,
     <<"f","e","d","e","x","_","2","d","a","y">>,
     <<"f","e","d","e","x"," ","2"," ","d","a","y">> >>

KW_LIGHT ==
  << <<"f","i","r","s","t","_","c","l","a","s","s">>,
     <<"u","s","p","s","_","f","i","r","s","t">>,
     <<"s","t","a","m","p","s","_","f","i","r","s","t","_","c","l","a","s","s">>,
     <<"g","r","o","u","n","d","_","a","d","v","a","n","t","a","g","e">>,
     <<"g","r","o","u","n","d"," ","a","d","v","a","n","t","a","g","e">> >>

KW_STANDARD ==
  << <<"u","s","p","s","_","p","r","i","o","r","i","t","y">>,
     <<"p","r","i","o","r","i","t","y","_","m","a","i","l">>,
     <<"p","r","i","o","r","i","t","y"," ","m","a","i","l">>,
     <<"u","p","s","_","g","r","o","u","n","d">>,
     <<"s","u","r","e","p","o","s","t">>,
     <<"f","e","d","e","x","_","g","r","o","u","n","d">>,
     <<"h","o","m","e","_","d","e","l","i","v","e","r","y">> >>

KW_INTERNATIONAL ==
  << <<"u","p","s","_","w","o","r","l","d","w","i","d","e">>,
     <<"w","o","r","l","d","w","i","d","e"," ","s","a","v","e","r">>,
     <<"w","o","r","l","d","w","i","d","e"," ","e","x","p","e","d","i","t","e","d">>,
     <<"p","r","i","o","r","i","t","y","_","m","a","i","l","_","i","n","t","e","r","n","a","t","i","o","n","a","l">>,
     <<"u","s","p","s","_","p","r","i","o","r","i","t","y","_","m","a","i","l","_","i","n","t","e","r","n","a","t","i","o","n","a","l">>,
     <<"f","e","d","e","x","_","i","n","t","e","r","n","a","t","i","o","n","a","l">>,
     <<"i","n","t","e","r","n","a","t","i","o","n","a","l"," ","e","c","o","n","o","m","y">>,
     <<"i","n","t","e","r","n","a","t","i","o","n","a","l"," ","p","r","i","o","r","i","t","y">> >>

STAMPS_COM == <<"s","t","a","m","p","s","_","c","o","m">>
UPS == <<"u","p","s">>
FEDEX == <<"f","e","d","e","x">>
EXPRESS_1 == <<"e","x","p","r","e","s","s","_","1">>
SKU_4IN == <<"4","I","N","-","P","L","A","N","T">>
SKU_6IN == <<"6","I","N","-","P","L","A","N","T">>
SKU_8IN == <<"8","I","N","-","P","L","A","N","T">>
SKU_BUNDLE == <<"B","U","N","D","L","E">>
SKU_6IN_LOWER == <<"6","i","n","-","p","l","a","n","t">>
SKU_4IN_LOWER == <<"4","i","n","-","p","l","a","n","t">>
SKU_8IN_OTHER == <<"8","i","n","-","f","e","r","n">>
SKU_OTHER == <<"P","O","T","-","0","1">>
SKU_DISCOUNT == <<"t","o","t","a","l","-","d","i","s","c","o","u","n","t">>
PREFIX_8IN == <<"8","I","N">>
US == <<"U","S">>
USA == <<"U","S","A">>
US_LOWER == <<"u","s">>
CA == <<"C","A">>

Q_FIRST_CLASS ==
  [carrierCode |-> <<"s","t","a","m","p","s","_","c","o","m">>,
   serviceCode |-> <<"u","s","p","s","_","f","i","r","s","t","_","c","l","a","s","s","_","m","a","i","l">>,
   serviceName |-> <<"U","S","P","S"," ","F","i","r","s","t"," ","C","l","a","s","s"," ","M","a","i","l">>]
Q_GROUND_ADVANTAGE ==
  [carrierCode |-> <<"s","t","a","m","p","s","_","c","o","m">>,
   serviceCode |-> <<"u","s","p","s","_","g","r","o","u","n","d","_","a","d","v","a","n","t","a","g","e">>,
   serviceName |-> <<"U","S","P","S"," ","G","r","o","u","n","d"," ","A","d","v","a","n","t","a","g","e">>]
Q_PRIORITY ==
  [carrierCode |-> <<"s","t","a","m","p","s","_","c","o","m">>,
   serviceCode |-> <<"u","s","p","s","_","p","r","i","o","r","i","t","y","_","m","a","i","l">>,
   serviceName |-> <<"U","S","P","S"," ","P","r","i","o","r","i","t","y"," ","M","a","i","l">>]
Q_MEDIA ==
  [carrierCode |-> <<"s","t","a","m","p","s","_","c","o","m">>,
   serviceCode |-> <<"u","s","p","s","_","m","e","d","i","a","_","m","a","i","l">>,
   serviceName |-> <<"U","S","P","S"," ","M","e","d","i","a"," ","M","a","i","l">>]
Q_PM_EXPRESS ==
  [carrierCode |-> <<"s","t","a","m","p","s","_","c","o","m">>,
   serviceCode |-> <<"u","s","p","s","_","p","m","_","e","x","p">>,
   serviceName |-> <<"U","S","P","S"," ","P","r","i","o","r","i","t","y"," ","M","a","i","l"," ","E","x","p","r","e","s","s">>]
Q_UPS_GROUND ==
  [carrierCode |-> <<"u","p","s">>,
   serviceCode |-> <<"u","p","s","_","g","r","o","u","n","d">>,
   serviceName |-> <<"U","P","S"," ","G","r","o","u","n","d">>]
Q_UPS_2DAY ==
  [carrierCode |-> <<"u","p","s">>,
   serviceCode |-> <<"u","p","s","_","2","n","d","_","d","a","y","_","a","i","r">>,
   serviceName |-> <<"U","P","S"," ","2","n","d"," ","D","a","y"," ","A","i","r">>]
Q_UPS_NEXT_DAY ==
  [carrierCode |-> <<"u","p","s">>,
   serviceCode |-> <<"u","p","s","_","n","e","x","t","_","d","a","y","_","a","i","r">>,
   serviceName |-> <<"U","P","S"," ","N","e","x","t"," ","D","a","y"," ","A","i","r">>]
Q_FEDEX_2DAY ==
  [carrierCode |-> <<"f","e","d","e","x">>,
   serviceCode |-> <<"f","e","d","e","x","_","2","d","a","y">>,
   serviceName |-> <<"F","e","d","E","x"," ","2","D","a","y">>]
Q_FEDEX_INTL ==
  [carrierCode |-> <<"f","e","d","e","x">>,
   serviceCode |-> <<"f","e","d","e","x","_","i","n","t","e","r","n","a","t","i","o","n","a","l","_","e","c","o","n","o","m","y">>,
   serviceName |-> <<"F","e","d","E","x"," ","I","n","t","e","r","n","a","t","i","o","n","a","l"," ","E","c","o","n","o","m","y">>]
Q_EXPRESS_1 ==
  [carrierCode |-> <<"e","x","p","r","e","s","s","_","1">>,
   serviceCode |-> <<"p","a","r","c","e","l","_","s","e","l","e","c","t">>,
   serviceName |-> <<"P","a","r","c","e","l"," ","S","e","l","e","c","t">>]
UPPER == <<"A","B","C","D","E","F","G","H","I","J","K","L","M","N","O","P","Q","R","S","T","U","V","W","X","Y","Z">>
LOWER == <<"a","b","c","d","e","f","g","h","i","j","k","l","m","n","o","p","q","r","s","t","u","v","w","x","y","z">>

-----------------------------------------------------------------------------
(* Bounds of the model                                                     *)

MaxOrders == 2
MaxQuotes == 1
MaxItems == 2
MaxPages == 3

-----------------------------------------------------------------------------
(* Tag constants                                                           *)

EDGE_CASE_TAG == 145681
PROCESSED_TAG == 145844
PITB_TAG == 117278
EXPEDITED_TAG == 126500
WAYFAIR_TAG == 151644
PUBLIC_GOODS_TAG == 147485
EXCLUDED_TAG_IDS == {WAYFAIR_TAG, PUBLIC_GOODS_TAG}

BATCH_4IN_TAG == 112293
BATCH_6IN_TAG == 112295
BATCH_BUNDLE_TAG == 112296

DEFAULT_WEIGHT_OZ == 16
LIGHT_THRESHOLD_OZ == 16
FALLBACK_WEIGHT_OZ == 16
INF_COST == 1000000

NEW_PRODUCT_SKUS == {}

carriers == <<STAMPS_COM, UPS, FEDEX>>

BOX_SIZES ==
  << [length |-> 8,  width |-> 8,  height |-> 8,  max_items |-> 1],
     [length |-> 10, width |-> 8,  height |-> 6,  max_items |-> 2],
     [length |-> 12, width |-> 10, height |-> 8,  max_items |-> 4],
     [length |-> 16, width |-> 12, height |-> 10, max_items |-> 8],
     [length |-> 20, width |-> 14, height |-> 12, max_items |-> 16] >>

-----------------------------------------------------------------------------
(* Optional JSON values                                                    *)

Absent(d) == [k |-> "absent", v |-> d]
Null(d) == [k |-> "null", v |-> d]
Val(x) == [k |-> "val", v |-> x]

\* dict.get(key): None for a missing key and for a null value
IsNone(f) == f.k # "val"

NoDims == [length |-> 0, width |-> 0, height |-> 0, units |-> ""]

-----------------------------------------------------------------------------
(* str.upper(), str.lower(), startswith, substring                         *)

CharIndex(alphabet, c) == CHOOSE j \in 1..Len(alphabet) : alphabet[j] = c

Letters(alphabet) == {alphabet[j] : j \in 1..Len(alphabet)}

\* the upper-case and lower-case partner of each cased character
ToUpper == [c \in Letters(LOWER) |-> UPPER[CharIndex(LOWER, c)]]
ToLower == [c \in Letters(UPPER) |-> LOWER[CharIndex(UPPER, c)]]

upper(s) ==
  [i \in 1..Len(s) |-> IF s[i] \in DOMAIN ToUpper THEN ToUpper[s[i]] ELSE s[i]]

lower(s) ==
  [i \in 1..Len(s) |-> IF s[i] \in DOMAIN ToLower THEN ToLower[s[i]] ELSE s[i]]

startswith(s, p) == Len(p) <= Len(s) /\ SubSeq(s, 1, Len(p)) = p

\* Python's  k in s  for strings
contains(s, k) ==
  \E i \in 0..(Len(s) - Len(k)) : SubSeq(s, i + 1, i + Len(k)) = k

-----------------------------------------------------------------------------
(* Edge-case predicates                                                    *)

\* order.get('tagIds') or []
TagList(order) == IF order.tagIds.k = "val" THEN order.tagIds.v ELSE {}

\* (order.get('advancedOptions', {}) or {})
AdvOpts(order) ==
  IF order.advancedOptions.k = "val" THEN order.advancedOptions.v
  ELSE [mergedOrSplit |-> Absent(FALSE), customField2 |-> Absent("")]

\* order.get("items", []): the list, [] when the key is missing.  A null value
\* comes back as None, and iterating it raises TypeError (ItemsNotIterable).
ItemList(order) == IF order.items.k = "val" THEN order.items.v ELSE <<>>

ItemsNotIterable(order) == order.items.k = "null"

get_skus(order) ==
  LET items == ItemList(order)
      keep == SelectSeq(items,
                LAMBDA it : it.sku.k = "val" /\ it.sku.v # <<>>
                            /\ it.sku.v # SKU_DISCOUNT)
  IN [i \in 1..Len(keep) |-> keep[i].sku.v]

has_edge_tag(order) == EDGE_CASE_TAG \in TagList(order)

\* Variant: the PROCESSED tag is never seen
has_processed_tag_ignored(order) == FALSE

has_processed_tag(order) == PROCESSED_TAG \in TagList(order)

is_merged(order) ==
  LET m == AdvOpts(order).mergedOrSplit
  IN IF m.k = "val" THEN m.v ELSE FALSE

has_no_location(order) ==
  LET c == AdvOpts(order).customField2
  IN IsNone(c) \/ c.v = "" \/ c.v = "No Location"

\* (order.get('weight', {}) or {}).get('value', 0.0) == 0.0 : a missing
\* value key reads 0.0, a null value reads None and None == 0.0 is False
has_no_shipping_settings(order) ==
  \/ order.weight.k \in {"absent", "null", "novalue"}
  \/ (order.weight.k = "num" /\ order.weight.v = 0)
  \/ IsNone(order.carrierCode)
  \/ IsNone(order.dimensions)

has_new_item(order) ==
  \E i \in 1..Len(get_skus(order)) : get_skus(order)[i] \in NEW_PRODUCT_SKUS

is_pitb(order) == PITB_TAG \in TagList(order)

\* Variant: critical data counts as missing only when both are missing
pitb_missing_crit_both(order) ==
  /\ IsNone(order.dimensions)
  /\ \/ order.weight.k \in {"absent", "null", "novalue", "valnull"}
     \/ (order.weight.k = "num" /\ order.weight.v = 0)

\* weight_val = ((order.get('weight') or {}) or {}).get('value')
\* missing_crit = dims is None or weight is None or weight_val in (None, 0, 0.0)
pitb_missing_crit(order) ==
  \/ IsNone(order.dimensions)
  \/ order.weight.k \in {"absent", "null", "novalue", "valnull"}
  \/ (order.weight.k = "num" /\ order.weight.v = 0)

Verdict(e, r, t) == [edge |-> e, reason |-> r, tagged |-> t]

\* mark_edge_case posts the EDGE_CASE tag for every reason it is called with
mark_edge_case(reason) == Verdict(TRUE, reason, TRUE)

\* Variant: the rule order of the scripts without PITB logic first, PITB last
is_edge_case_pitb_late(order) ==
  IF has_edge_tag(order) THEN mark_edge_case("already_tagged")
  ELSE IF has_processed_tag(order) THEN Verdict(FALSE, "already_processed", FALSE)
  ELSE IF is_merged(order) THEN mark_edge_case("merged")
  ELSE IF has_no_location(order) THEN mark_edge_case("no_location")
  ELSE IF is_pitb(order) THEN
    IF pitb_missing_crit(order)
      THEN mark_edge_case("pitb_missing_critical_shipping_data")
      ELSE Verdict(FALSE, "pitb_skip", FALSE)
  ELSE IF has_no_shipping_settings(order) THEN mark_edge_case("missing_shipping")
  ELSE IF has_new_item(order) THEN mark_edge_case("new_sku")
  ELSE Verdict(FALSE, "routine", FALSE)

\* Variant: the location rule ahead of the merge rule
is_edge_case_location_first(order) ==
  IF is_pitb(order) THEN
    IF pitb_missing_crit(order)
      THEN mark_edge_case("pitb_missing_critical_shipping_data")
      ELSE Verdict(FALSE, "pitb_skip", FALSE)
  ELSE IF has_edge_tag(order) THEN mark_edge_case("already_tagged")
  ELSE IF has_processed_tag(order) THEN Verdict(FALSE, "already_processed", FALSE)
  ELSE IF has_no_location(order) THEN mark_edge_case("no_location")
  ELSE IF is_merged(order) THEN mark_edge_case("merged")
  ELSE IF has_no_shipping_settings(order) THEN mark_edge_case("missing_shipping")
  ELSE IF has_new_item(order) THEN mark_edge_case("new_sku")
  ELSE Verdict(FALSE, "routine", FALSE)

\* Variant: the PROCESSED rule missing from the cascade
is_edge_case_no_processed_rule(order) ==
  IF is_pitb(order) THEN
    IF pitb_missing_crit(order)
      THEN mark_edge_case("pitb_missing_critical_shipping_data")
      ELSE Verdict(FALSE, "pitb_skip", FALSE)
  ELSE IF has_edge_tag(order) THEN mark_edge_case("already_tagged")
  ELSE IF is_merged(order) THEN mark_edge_case("merged")
  ELSE IF has_no_location(order) THEN mark_edge_case("no_location")
  ELSE IF has_no_shipping_settings(order) THEN mark_edge_case("missing_shipping")
  ELSE IF has_new_item(order) THEN mark_edge_case("new_sku")
  ELSE Verdict(FALSE, "routine", FALSE)

\* Result of is_edge_case: the returned boolean, the rule that decided and
\* whether mark_edge_case (one addtag request for EDGE_CASE_TAG) was called.
is_edge_case(order) ==
  IF is_pitb(order) THEN
    IF pitb_missing_crit(order)
      THEN mark_edge_case("pitb_missing_critical_shipping_data")
      ELSE Verdict(FALSE, "pitb_skip", FALSE)
  ELSE IF has_edge_tag(order) THEN mark_edge_case("already_tagged")
  ELSE IF has_processed_tag(order) THEN Verdict(FALSE, "already_processed", FALSE)
  ELSE IF is_merged(order) THEN mark_edge_case("merged")
  ELSE IF has_no_location(order) THEN mark_edge_case("no_location")
  ELSE IF has_no_shipping_settings(order) THEN mark_edge_case("missing_shipping")
  ELSE IF ItemsNotIterable(order) THEN Verdict(FALSE, "TypeError", FALSE)
  ELSE IF has_new_item(order) THEN mark_edge_case("new_sku")
  ELSE Verdict(FALSE, "routine", FALSE)

-----------------------------------------------------------------------------
(* Packaging estimate                                                      *)

\* Variant: every SKU weighs the default
SKU_WEIGHT_MAP_default_only(sku) == DEFAULT_WEIGHT_OZ

SKU_WEIGHT_MAP(sku) ==
  IF sku = SKU_4IN THEN 16
  ELSE IF sku = SKU_6IN THEN 40
  ELSE IF sku = SKU_8IN THEN 64
  ELSE IF sku = SKU_BUNDLE THEN 56
  ELSE DEFAULT_WEIGHT_OZ

\* (it.get("sku") or "").upper()
item_sku(it) == IF it.sku.k = "val" THEN upper(it.sku.v) ELSE <<>>

\* int(it.get("quantity") or 1)
item_qty(it) == IF it.quantity.k = "val" /\ it.quantity.v # 0 THEN it.quantity.v ELSE 1

RECURSIVE total_items(_)
total_items(items) ==
  IF items = <<>> THEN 0
  ELSE item_qty(Head(items)) + total_items(Tail(items))

RECURSIVE total_weight(_)
total_weight(items) ==
  IF items = <<>> THEN 0
  ELSE SKU_WEIGHT_MAP(item_sku(Head(items))) * item_qty(Head(items))
       + total_weight(Tail(items))

\* Variant: only the exact SKU BUNDLE counts as large
large_item_present_bundle_only(items) ==
  \E i \in 1..Len(items) : items[i].sku = Val(SKU_BUNDLE)

large_item_present(items) ==
  \E i \in 1..Len(items) :
     startswith(item_sku(items[i]), PREFIX_8IN) \/ item_sku(items[i]) = SKU_BUNDLE

\* Variant: a box fits only when its max_items exceeds the count
chosen_box_strict(items) ==
  IF large_item_present(items) THEN BOX_SIZES[Len(BOX_SIZES) - 1]
  ELSE IF \E i \in 1..Len(BOX_SIZES) : total_items(items) < BOX_SIZES[i].max_items
    THEN BOX_SIZES[CHOOSE i \in 1..Len(BOX_SIZES) :
                     /\ total_items(items) < BOX_SIZES[i].max_items
                     /\ \A j \in 1..(i - 1) : total_items(items) >= BOX_SIZES[j].max_items]
    ELSE BOX_SIZES[Len(BOX_SIZES)]

chosen_box(items) ==
  IF large_item_present(items) THEN BOX_SIZES[Len(BOX_SIZES) - 1]
  ELSE IF \E i \in 1..Len(BOX_SIZES) : total_items(items) <= BOX_SIZES[i].max_items
    THEN BOX_SIZES[CHOOSE i \in 1..Len(BOX_SIZES) :
                     /\ total_items(items) <= BOX_SIZES[i].max_items
                     /\ \A j \in 1..(i - 1) : total_items(items) > BOX_SIZES[j].max_items]
    ELSE BOX_SIZES[Len(BOX_SIZES)]

\* Variant: the estimate is skipped and the order keeps its fetched values
assign_weight_and_dimensions_skipped(order) == order

\* The order after assign_weight_and_dimensions
assign_weight_and_dimensions(order) ==
  LET b == chosen_box(ItemList(order))
  IN [order EXCEPT
        !.weight = [k |-> "num", v |-> total_weight(ItemList(order)), units |-> "ounces"],
        !.dimensions = Val([length |-> b.length, width |-> b.width,
                            height |-> b.height, units |-> "inches"])]

-----------------------------------------------------------------------------
(* Rate shopping                                                           *)

\* r.get("shipmentCost", float("inf"))
cost_key(r) == IF r.shipmentCost.k = "val" THEN r.shipmentCost.v ELSE INF_COST

\* Variant: the pool is left in discovery order
sort_by_cost_skipped(rates) == rates

\* Variant: ascending, but quotes of equal cost end up in reverse order
sort_by_cost_ties_reversed(rates) ==
  LET rank(i) ==
        Cardinality({j \in 1..Len(rates) :
                       \/ cost_key(rates[j]) < cost_key(rates[i])
                       \/ (cost_key(rates[j]) = cost_key(rates[i]) /\ j >= i)})
  IN [n \in 1..Len(rates) |-> rates[CHOOSE i \in 1..Len(rates) : rank(i) = n]]

\* list.sort(key=cost_key): stable, ascending.  Element i moves to the
\* position that counts the cheaper elements and the equal ones before it.
sort_by_cost(rates) ==
  LET rank(i) ==
        Cardinality({j \in 1..Len(rates) :
                       \/ cost_key(rates[j]) < cost_key(rates[i])
                       \/ (cost_key(rates[j]) = cost_key(rates[i]) /\ j <= i)})
  IN [n \in 1..Len(rates) |-> rates[CHOOSE i \in 1..Len(rates) : rank(i) = n]]

matches_keywords(r, keywords) ==
  LET sc == lower(r.serviceCode)
      sn == lower(r.serviceName)
      cc == lower(r.carrierCode)
  IN \E i \in 1..Len(keywords) :
        \/ contains(sc, keywords[i])
        \/ contains(sn, keywords[i])
        \/ contains(cc, keywords[i])

\* Variant: max instead of min
max_by_cost(cands) ==
  cands[CHOOSE i \in 1..Len(cands) :
          /\ \A j \in 1..Len(cands) : cost_key(cands[i]) >= cost_key(cands[j])
          /\ \A j \in 1..(i - 1) : cost_key(cands[j]) < cost_key(cands[i])]

\* min(cands, key=cost_key): the first candidate of lowest cost
min_by_cost(cands) ==
  cands[CHOOSE i \in 1..Len(cands) :
          /\ \A j \in 1..Len(cands) : cost_key(cands[i]) <= cost_key(cands[j])
          /\ \A j \in 1..(i - 1) : cost_key(cands[j]) > cost_key(cands[i])]

NoQuote == [carrierCode |-> <<>>, serviceCode |-> <<>>, serviceName |-> <<>>,
            shipmentCost |-> Absent(0)]

choose_by_keywords(rates_list, keywords) ==
  LET cands == SelectSeq(rates_list, LAMBDA r : matches_keywords(r, keywords))
  IN IF cands = <<>> THEN Null(NoQuote) ELSE Val(min_by_cost(cands))

\* order.get("shipTo", {}).get("country", "US"), then (toCountry or "US").upper()
to_country(order) ==
  IF order.shipTo.country.k = "val" /\ order.shipTo.country.v # <<>>
    THEN upper(order.shipTo.country.v) ELSE US

is_domestic(order) == to_country(order) \in {US, USA}

\* float((base_shipment.get("weight") or {}).get("value") or 0.0), where
\* base_shipment["weight"] falls back to 16 oz when the order has no weight key
weight_oz(order) ==
  IF order.weight.k = "absent" THEN FALLBACK_WEIGHT_OZ
  ELSE IF order.weight.k = "num" THEN order.weight.v
  ELSE 0

order_has_tag(order, tag_id) == tag_id \in TagList(order)

\* Variant: the lightweight search runs whatever the weight is
choose_rate_light_any_weight(order, sorted) ==
  LET expedited == order_has_tag(order, EXPEDITED_TAG)
      c1 == IF expedited THEN choose_by_keywords(sorted, KW_EXPEDITED)
            ELSE Null(NoQuote)
      c2 == IF c1.k # "val" /\ is_domestic(order) /\ weight_oz(order) > 0
            THEN LET l == choose_by_keywords(sorted, KW_LIGHT)
                 IN IF l.k # "val" THEN choose_by_keywords(sorted, KW_STANDARD)
                    ELSE l
            ELSE c1
      c3 == IF c2.k # "val" /\ ~is_domestic(order)
            THEN choose_by_keywords(sorted, KW_INTERNATIONAL)
            ELSE c2
  IN IF c3.k # "val" THEN sorted[1] ELSE c3.v

\* Variant: the lightweight and standard searches also run for other countries
choose_rate_domestic_rule_abroad(order, sorted) ==
  LET expedited == order_has_tag(order, EXPEDITED_TAG)
      c1 == IF expedited THEN choose_by_keywords(sorted, KW_EXPEDITED)
            ELSE Null(NoQuote)
      c2 == IF c1.k # "val" /\ weight_oz(order) > 0
            THEN LET l == IF weight_oz(order) < LIGHT_THRESHOLD_OZ
                          THEN choose_by_keywords(sorted, KW_LIGHT)
                          ELSE c1
                 IN IF l.k # "val" THEN choose_by_keywords(sorted, KW_STANDARD)
                    ELSE l
            ELSE c1
      c3 == IF c2.k # "val" /\ ~is_domestic(order)
            THEN choose_by_keywords(sorted, KW_INTERNATIONAL)
            ELSE c2
  IN IF c3.k # "val" THEN sorted[1] ELSE c3.v

\* The preference cascade over the sorted pool; the pool is not empty
choose_rate(order, sorted) ==
  LET expedited == order_has_tag(order, EXPEDITED_TAG)
      c1 == IF expedited THEN choose_by_keywords(sorted, KW_EXPEDITED)
            ELSE Null(NoQuote)
      c2 == IF c1.k # "val" /\ is_domestic(order) /\ weight_oz(order) > 0
            THEN LET l == IF weight_oz(order) < LIGHT_THRESHOLD_OZ
                          THEN choose_by_keywords(sorted, KW_LIGHT)
                          ELSE c1
                 IN IF l.k # "val" THEN choose_by_keywords(sorted, KW_STANDARD)
                    ELSE l
            ELSE c1
      c3 == IF c2.k # "val" /\ ~is_domestic(order)
            THEN choose_by_keywords(sorted, KW_INTERNATIONAL)
            ELSE c2
  IN IF c3.k # "val" THEN sorted[1] ELSE c3.v

\* Body of one status-200 response added to the pool:  resp.json() or [] ,
\* kept only when it is a list
response_rates(resp) == IF resp.kind = "list" THEN resp.rates ELSE <<>>

-----------------------------------------------------------------------------
(* Batch tagging by product type                                           *)

PRODUCT_TYPE_TO_BATCH_TAG(sku) ==
  IF sku = SKU_4IN THEN BATCH_4IN_TAG
  ELSE IF sku = SKU_6IN THEN BATCH_6IN_TAG
  ELSE BATCH_BUNDLE_TAG

ProductTypes == {SKU_4IN, SKU_6IN, SKU_BUNDLE}

get_primary_product_type(order) ==
  LET hits == SelectSeq(ItemList(order), LAMBDA it : item_sku(it) \in ProductTypes)
  IN IF hits = <<>> THEN Null(<<>>) ELSE Val(item_sku(hits[1]))

\* batch_groups in dict order (product type first seen first), each group in
\* eligible order, flattened to the sequence of [order index, batch tag]
RECURSIVE batch_plan_from(_, _, _)
batch_plan_from(os, elig, i) ==
  IF i > Len(elig) THEN <<>>
  ELSE LET pt == get_primary_product_type(os[elig[i]])
           first == pt.k = "val"
                    /\ \A j \in 1..(i - 1) : get_primary_product_type(os[elig[j]]) # pt
           group == SelectSeq(elig, LAMBDA x : get_primary_product_type(os[x]) = pt)
       IN (IF first
             THEN [n \in 1..Len(group) |->
                     [idx |-> group[n], tag |-> PRODUCT_TYPE_TO_BATCH_TAG(pt.v)]]
             ELSE <<>>)
          \o batch_plan_from(os, elig, i + 1)

batch_plan(os, elig) == batch_plan_from(os, elig, 1)

\* set(o.get("tagIds", [])) raises TypeError when some tagIds value is null
TagIdsNotIterable(os) == \E i \in 1..Len(os) : os[i].tagIds.k = "null"

\* Variant: no order is excluded
eligible_orders_unfiltered(os) == [i \in 1..Len(os) |-> i]

\* eligible_orders: positions of the orders without an excluded tag
eligible_orders(os) ==
  SelectSeq([i \in 1..Len(os) |-> i],
            LAMBDA i : TagList(os[i]) \cap EXCLUDED_TAG_IDS = {})
-----------------------------------------------------------------------------
(* State                                                                   *)

VARIABLES
  orders,             \* all_orders: the fetched orders, mutated in memory
  eligible,           \* eligible_orders, as positions in orders
  rateOracle,         \* what /shipments/getrates answers, per order and carrier
  pc,                 \* position of the script
  ci,                 \* position of the orders_to_process comprehension
  orders_to_process,  \* positions of the orders selected for processing
  pi,                 \* position of the processing loop
  carrierIdx,         \* position of the carrier loop in set_shipping_service
  all_rates,          \* the pool of set_shipping_service
  bi,                 \* position of the batch tagging loop
  verdicts,           \* result of is_edge_case per order, "none" before the call
  outcome,            \* result of set_shipping_service per order
  estimated,          \* orderIds passed to assign_weight_and_dimensions, in order
  rateReqs,           \* POST /shipments/getrates requests sent, in order
  tagReqs,            \* POST /orders/addtag requests sent, in order
  tagResp,            \* outcome of the latest addtag request
  fetcher,            \* the order listing function that runs, "none" outside a listing
  page,               \* the page the listing loop is at
  pageLog             \* GET /orders requests sent with their answers, in order

\* the locals of the order listing loop
listVars == <<fetcher, page, pageLog>>

vars == <<orders, eligible, rateOracle, pc, ci, orders_to_process, pi,
          carrierIdx, all_rates, bi, verdicts, outcome, estimated, rateReqs,
          tagReqs, tagResp, fetcher, page, pageLog>>

\* the listing is over when the batch scripts work on the orders
ListingOver ==
  /\ fetcher = "none"
  /\ page = 0
  /\ pageLog = <<>>

NoVerdict == Verdict(FALSE, "none", FALSE)

\* the order the processing loop is at
cur == orders_to_process[pi]

\* requests.post(.../orders/addtag): the request is sent, the status is only printed
assign_tag(order_id, tag_id) ==
  \E ok \in BOOLEAN :
    /\ tagReqs' = Append(tagReqs, [orderId |-> order_id, tagId |-> tag_id])
    /\ tagResp' = IF ok THEN "ok" ELSE "failed"

\* what follows the processing loop: the grouping loop reads the items of every
\* eligible order (TypeError on a null items value), then the tagging loop runs
after_processing ==
  IF \E n \in 1..Len(eligible) : ItemsNotIterable(orders[eligible[n]]) THEN "crashed"
  ELSE IF batch_plan(orders, eligible) = <<>> THEN "done"
  ELSE "batchtag"

-----------------------------------------------------------------------------
(* orders_to_process = [o for o in eligible_orders                         *)
(*                      if not is_edge_case(o) and not has_processed_tag(o)] *)
(* one order per step; mem is the in-memory order list after the call      *)

ClassifyStep(mem) ==
  /\ pc = "classify"
  /\ LET i == eligible[ci]
         v == is_edge_case(orders[i])
         sel == IF ~v.edge /\ ~has_processed_tag(mem[i])
                  THEN Append(orders_to_process, i) ELSE orders_to_process
     IN /\ verdicts' = [verdicts EXCEPT ![i] = v]
        /\ IF v.tagged THEN assign_tag(orders[i].orderId, EDGE_CASE_TAG)
                       ELSE UNCHANGED <<tagReqs, tagResp>>
        /\ orders' = mem
        /\ IF v.reason = "TypeError"
             THEN /\ pc' = "crashed"
                  /\ UNCHANGED <<orders_to_process, ci>>
             ELSE /\ orders_to_process' = sel
                  /\ ci' = ci + 1
                  /\ pc' = IF ci < Len(eligible) THEN "classify"
                           ELSE IF sel # <<>> THEN "estimate"
                           ELSE after_processing
  /\ UNCHANGED listVars
  /\ UNCHANGED <<eligible, rateOracle, pi, carrierIdx, all_rates, bi, outcome,
                 estimated, rateReqs>>

\* Variant: an edge verdict also appends the tag to the in-memory tagIds
ClassifyOrderMarksInMemory ==
  LET o == orders[eligible[ci]]
  IN ClassifyStep(
       [orders EXCEPT ![eligible[ci]] =
          IF is_edge_case(o).tagged
            THEN [o EXCEPT !.tagIds = Val(TagList(o) \cup {EDGE_CASE_TAG})]
            ELSE o])

ClassifyOrder == ClassifyStep(orders)

-----------------------------------------------------------------------------
(* for order in orders_to_process: ...                                     *)

AssignWeightAndDimensions ==
  /\ pc = "estimate"
  /\ IF ItemsNotIterable(orders[cur])
       THEN /\ pc' = "crashed"
            /\ UNCHANGED <<orders, estimated>>
       ELSE /\ orders' = [orders EXCEPT ![cur] = assign_weight_and_dimensions(@)]
            /\ estimated' = Append(estimated, orders[cur].orderId)
            /\ pc' = "rates"
  /\ UNCHANGED listVars
  /\ UNCHANGED <<eligible, rateOracle, ci, orders_to_process, pi, carrierIdx,
                 all_rates, bi, verdicts, outcome, rateReqs, tagReqs, tagResp>>

\* one iteration of  for carrier in carriers ; a transport error raised by
\* requests.post is not caught anywhere and ends the script
GetRates ==
  /\ pc = "rates"
  /\ LET resp == rateOracle[cur][carrierIdx]
         pool == IF carrierIdx = 1 THEN <<>> ELSE all_rates
     IN /\ rateReqs' = Append(rateReqs,
                          [orderId |-> orders[cur].orderId,
                           carrierCode |-> carriers[carrierIdx],
                           weight |-> orders[cur].weight,
                           dimensions |-> orders[cur].dimensions])
        /\ IF resp.kind = "transport"
             THEN /\ pc' = "crashed"
                  /\ all_rates' = pool
                  /\ UNCHANGED carrierIdx
             ELSE /\ all_rates' = pool \o response_rates(resp)
                  /\ carrierIdx' = IF carrierIdx < Len(carriers) THEN carrierIdx + 1 ELSE 1
                  /\ pc' = IF carrierIdx < Len(carriers) THEN "rates" ELSE "select"
  /\ UNCHANGED listVars
  /\ UNCHANGED <<orders, eligible, rateOracle, ci, orders_to_process, pi, bi,
                 verdicts, outcome, estimated, tagReqs, tagResp>>

\* Variant: an empty pool is only reported, as in the single-request script
set_shipping_service_untagged(order, pool) ==
  IF pool = <<>>
    THEN [order |-> order, outcome |-> "NoRatesFound", tagged |-> FALSE, pool |-> pool]
    ELSE LET sorted == sort_by_cost(pool)
             chosen == choose_rate(order, sorted)
         IN [order |-> [order EXCEPT !.carrierCode = Val(chosen.carrierCode),
                                     !.serviceCode = Val(chosen.serviceCode)],
             outcome |-> "Selected", tagged |-> FALSE, pool |-> sorted]

\* set_shipping_service after the carrier loop, for an order and its pool
set_shipping_service(order, pool) ==
  IF pool = <<>>
    THEN [order |-> order, outcome |-> "NoRatesFound", tagged |-> TRUE, pool |-> pool]
    ELSE LET sorted == sort_by_cost(pool)
             chosen == choose_rate(order, sorted)
         IN [order |-> [order EXCEPT !.carrierCode = Val(chosen.carrierCode),
                                     !.serviceCode = Val(chosen.serviceCode)],
             outcome |-> "Selected", tagged |-> FALSE, pool |-> sorted]

SelectService ==
  /\ pc = "select"
  /\ LET r == set_shipping_service(orders[cur], all_rates)
     IN /\ orders' = [orders EXCEPT ![cur] = r.order]
        /\ all_rates' = r.pool
        /\ outcome' = [outcome EXCEPT ![cur] = r.outcome]
        /\ IF r.tagged THEN assign_tag(orders[cur].orderId, EDGE_CASE_TAG)
                       ELSE UNCHANGED <<tagReqs, tagResp>>
  /\ pc' = "account"
  /\ UNCHANGED listVars
  /\ UNCHANGED <<eligible, rateOracle, ci, orders_to_process, pi, carrierIdx, bi,
                 verdicts, estimated, rateReqs>>

\* Variant: a failed PROCESSED tag-add ends the run
FinishOrderStopsOnFailure ==
  /\ pc = "account"
  /\ assign_tag(orders[cur].orderId, PROCESSED_TAG)
  /\ pi' = pi + 1
  /\ pc' = IF tagResp' = "failed" THEN "crashed"
           ELSE IF pi < Len(orders_to_process) THEN "estimate" ELSE after_processing
  /\ UNCHANGED listVars
  /\ UNCHANGED <<orders, eligible, rateOracle, ci, orders_to_process, carrierIdx,
                 all_rates, bi, verdicts, outcome, estimated, rateReqs>>

\* assign_shipping_account (a stub that prints) and assign_tag(PROCESSED_TAG)
FinishOrder ==
  /\ pc = "account"
  /\ assign_tag(orders[cur].orderId, PROCESSED_TAG)
  /\ pi' = pi + 1
  /\ pc' = IF pi < Len(orders_to_process) THEN "estimate" ELSE after_processing
  /\ UNCHANGED listVars
  /\ UNCHANGED <<orders, eligible, rateOracle, ci, orders_to_process, carrierIdx,
                 all_rates, bi, verdicts, outcome, estimated, rateReqs>>

\* for ptype, orders in batch_groups.items(): for order in orders: assign_tag
BatchTag ==
  /\ pc = "batchtag"
  /\ LET plan == batch_plan(orders, eligible)
     IN /\ assign_tag(orders[plan[bi].idx].orderId, plan[bi].tag)
        /\ bi' = bi + 1
        /\ pc' = IF bi < Len(plan) THEN "batchtag" ELSE "done"
  /\ UNCHANGED listVars
  /\ UNCHANGED <<orders, eligible, rateOracle, ci, orders_to_process, pi,
                 carrierIdx, all_rates, verdicts, outcome, estimated, rateReqs>>

Next ==
  \/ ClassifyOrder
  \/ AssignWeightAndDimensions
  \/ GetRates
  \/ SelectService
  \/ FinishOrder
  \/ BatchTag
-----------------------------------------------------------------------------
(* Inputs: fetched orders and rate answers                                 *)

Weight(kind, oz) == [k |-> kind, v |-> oz, units |-> "ounces"]

Item(sku, qty) == [sku |-> Val(sku), quantity |-> Val(qty)]

Quote(service, cents) ==
  [carrierCode |-> service.carrierCode, serviceCode |-> service.serviceCode,
   serviceName |-> service.serviceName, shipmentCost |-> Val(cents)]

FetchedOrder(tags, weight, dims, carrier, adv, items, country) ==
  [orderId |-> 0, tagIds |-> tags, weight |-> weight, dimensions |-> dims,
   carrierCode |-> carrier.carrierCode, serviceCode |-> carrier.serviceCode,
   advancedOptions |-> adv, items |-> items, shipTo |-> [country |-> country]]

\* an order whose items key holds a list
Order(tags, weight, dims, carrier, adv, items, country) ==
  FetchedOrder(tags, weight, dims, carrier, adv, Val(items), country)

SomeDims == Val([length |-> 10, width |-> 8, height |-> 6, units |-> "inches"])

NoCarrier == [carrierCode |-> Absent(<<>>), serviceCode |-> Absent(<<>>)]
NullCarrier == [carrierCode |-> Null(<<>>), serviceCode |-> Null(<<>>)]
UpsGround == [carrierCode |-> Val(UPS), serviceCode |-> Val(Q_UPS_GROUND.serviceCode)]

AdvancedOptions(merged, location) ==
  Val([mergedOrSplit |-> merged, customField2 |-> location])

NoAdvancedOptions == [mergedOrSplit |-> Absent(FALSE), customField2 |-> Absent("")]

Located == AdvancedOptions(Val(FALSE), Val("A-12"))

ErrorResponse == [kind |-> "error", rates |-> <<>>]
TransportError == [kind |-> "transport", rates |-> <<>>]
NonListResponse == [kind |-> "nonlist", rates |-> <<>>]
ListResponse(rates) == [kind |-> "list", rates |-> rates]

SeqsUpTo(S, n) == UNION {[1..m -> S] : m \in 0..n}

\* every combination of the attributes the classifier reads
ClassifyTagSets ==
  {Absent({})} \cup
  {Val(s) : s \in SUBSET {PITB_TAG, EDGE_CASE_TAG, PROCESSED_TAG, EXPEDITED_TAG}}

ClassifyWeights ==
  {[k |-> "absent", v |-> 0, units |-> ""], [k |-> "null", v |-> 0, units |-> ""],
   Weight("novalue", 0), Weight("valnull", 0), Weight("num", 0), Weight("num", 20)}

ClassifyDims == {Absent(NoDims), Null(NoDims), SomeDims}

ClassifyCarriers == {NoCarrier, NullCarrier, UpsGround}

ClassifyAdvancedOptions ==
  {Absent(NoAdvancedOptions), Null(NoAdvancedOptions)} \cup
  {AdvancedOptions(m, l) :
     m \in {Absent(FALSE), Val(TRUE), Val(FALSE)},
     l \in {Absent(""), Null(""), Val(""), Val("No Location"), Val("A-12")}}

ClassifyItems == {<<Item(SKU_4IN, 3)>>}

ClassifyOrders ==
  {Order(t, w, d, c, a, i, Val(US)) :
     t \in ClassifyTagSets, w \in ClassifyWeights, d \in ClassifyDims,
     c \in ClassifyCarriers, a \in ClassifyAdvancedOptions, i \in ClassifyItems}

ClassifyOracles ==
  {<<ListResponse(<<Quote(Q_PRIORITY, 1250)>>), ErrorResponse,
     ListResponse(<<Quote(Q_FEDEX_2DAY, 800)>>)>>}

InitWith(sizes, orderSet, oracleSet) ==
  \E n \in sizes : \E t \in [1..n -> orderSet] : \E ro \in [1..n -> oracleSet] :
    /\ orders = [i \in 1..n |-> [t[i] EXCEPT !.orderId = i]]
    /\ rateOracle = ro
    /\ eligible = IF TagIdsNotIterable(orders) THEN <<>> ELSE eligible_orders(orders)
    /\ pc = IF TagIdsNotIterable(orders) THEN "crashed"
            ELSE IF eligible = <<>> THEN after_processing
            ELSE "classify"
    /\ ci = 1
    /\ orders_to_process = <<>>
    /\ pi = 1
    /\ carrierIdx = 1
    /\ all_rates = <<>>
    /\ bi = 1
    /\ verdicts = [i \in 1..n |-> NoVerdict]
    /\ outcome = [i \in 1..n |-> "none"]
    /\ estimated = <<>>
    /\ rateReqs = <<>>
    /\ tagReqs = <<>>
    /\ tagResp = "none"
    /\ ListingOver

\* one fetched order over every combination of classifier inputs
InitClassify == InitWith({1}, ClassifyOrders, ClassifyOracles)

SpecClassify == InitClassify /\ [][Next]_vars

\* routine orders that differ in what the rate selection reads
RatesOrders ==
  {Order(Val(t), Weight("num", 20), SomeDims, UpsGround, Located, i, c) :
     t \in {{}, {EXPEDITED_TAG}},
     i \in {<<>>, <<Item(SKU_4IN, 1)>>},
     c \in {Val(US), Val(US_LOWER), Val(CA)}}

StampsQuotes == {Quote(Q_MEDIA, 1250), Quote(Q_PM_EXPRESS, 1500), Quote(Q_PRIORITY, 800)}
UpsQuotes == {Quote(Q_UPS_NEXT_DAY, 800), Quote(Q_UPS_2DAY, 1250)}
FedexQuotes == {Quote(Q_EXPRESS_1, 1500), Quote(Q_FEDEX_2DAY, 1250), Quote(Q_FEDEX_INTL, 800)}

Responses(quotes) ==
  {ErrorResponse, TransportError, NonListResponse} \cup
  {ListResponse(s) : s \in SeqsUpTo(quotes, MaxQuotes)}

RatesOracles ==
  {<<a, b, c>> : a \in Responses(StampsQuotes), b \in Responses(UpsQuotes),
                 c \in Responses(FedexQuotes)}

\* one routine order against every combination of carrier answers
InitRates == InitWith({1}, RatesOrders, RatesOracles)

SpecRates == InitRates /\ [][Next]_vars

\* a batch of up to MaxOrders orders, one of each kind the driver tells apart
BatchOrders ==
  {Order(Val({}), Weight("num", 20), SomeDims, UpsGround, Located,
         <<Item(SKU_4IN, 3)>>, Val(US)),
   Order(Val({PITB_TAG, EDGE_CASE_TAG}), Weight("num", 20), SomeDims, NoCarrier,
         Located, <<Item(SKU_OTHER, 1)>>, Val(US)),
   Order(Val({PITB_TAG}), Weight("num", 0), SomeDims, UpsGround, Located,
         <<Item(SKU_6IN, 1)>>, Val(US)),
   Order(Val({PITB_TAG, PROCESSED_TAG}), Weight("num", 20), SomeDims, UpsGround,
         Located, <<Item(SKU_4IN, 1)>>, Val(US)),
   Order(Val({EDGE_CASE_TAG}), Weight("num", 20), SomeDims, UpsGround, Located,
         <<Item(SKU_4IN, 1)>>, Val(US)),
   Order(Val({PROCESSED_TAG}), Weight("num", 20), SomeDims, UpsGround,
         AdvancedOptions(Val(TRUE), Val("A-12")), <<Item(SKU_4IN, 1)>>, Val(US)),
   Order(Val({}), Weight("num", 20), SomeDims, UpsGround,
         AdvancedOptions(Val(TRUE), Absent("")), <<>>, Val(US)),
   Order(Val({WAYFAIR_TAG}), Weight("num", 20), SomeDims, UpsGround, Located,
         <<Item(SKU_BUNDLE, 1)>>, Val(US))}

BatchOracles ==
  {<<ErrorResponse, NonListResponse, ListResponse(<<>>)>>,
   <<ListResponse(<<Quote(Q_PRIORITY, 1250)>>), ErrorResponse,
     ListResponse(<<Quote(Q_FEDEX_2DAY, 800)>>)>>,
   <<ListResponse(<<Quote(Q_MEDIA, 800)>>), TransportError, ErrorResponse>>}

Init == InitWith(1..MaxOrders, BatchOrders, BatchOracles)

Spec == Init /\ [][Next]_vars

\* set_shipping_service called on one order as it is handed over: any weight
\* (also below the light-parcel threshold), tags and destination
SelectOrders ==
  {Order(Val(t), w, SomeDims, UpsGround, Located, <<Item(SKU_4IN, 1)>>, Val(c)) :
     t \in {{}, {EXPEDITED_TAG}},
     w \in {Weight("absent", 0), Weight("num", 0), Weight("num", 8), Weight("num", 16)},
     c \in {US, USA, CA}}

SelectStampsQuotes ==
  {Quote(Q_FIRST_CLASS, 1250), Quote(Q_GROUND_ADVANTAGE, 1500), Quote(Q_PRIORITY, 800)}
SelectUpsQuotes == {Quote(Q_UPS_GROUND, 1250), Quote(Q_UPS_NEXT_DAY, 800)}
SelectFedexQuotes == {Quote(Q_FEDEX_2DAY, 1250), Quote(Q_FEDEX_INTL, 800)}

SelectAnswers(quotes) ==
  {ErrorResponse} \cup {ListResponse(s) : s \in SeqsUpTo(quotes, MaxQuotes)}

SelectOracles ==
  {<<a, b, c>> :
     a \in SelectAnswers(SelectStampsQuotes)
             \cup {ListResponse(<<Quote(Q_GROUND_ADVANTAGE, 1500),
                                  Quote(Q_FIRST_CLASS, 1250)>>)},
     b \in SelectAnswers(SelectUpsQuotes),
     c \in SelectAnswers(SelectFedexQuotes)}

InitSelect ==
  \E o \in SelectOrders : \E ro \in SelectOracles :
    /\ orders = <<[o EXCEPT !.orderId = 1]>>
    /\ rateOracle = <<ro>>
    /\ eligible = <<1>>
    /\ pc = "rates"
    /\ ci = 1
    /\ orders_to_process = <<1>>
    /\ pi = 1
    /\ carrierIdx = 1
    /\ all_rates = <<>>
    /\ bi = 1
    /\ verdicts = <<NoVerdict>>
    /\ outcome = <<"none">>
    /\ estimated = <<>>
    /\ rateReqs = <<>>
    /\ tagReqs = <<>>
    /\ tagResp = "none"
    /\ ListingOver

\* one call of set_shipping_service: the carrier loop, then the selection
NextSelect ==
  \/ GetRates
  \/ SelectService

SpecSelect == InitSelect /\ [][NextSelect]_vars

\* one routine order over line-item sequences of up to MaxItems lines
PackSkus ==
  {SKU_4IN, SKU_6IN, SKU_6IN_LOWER, SKU_8IN, SKU_8IN_OTHER, SKU_BUNDLE, SKU_OTHER,
   SKU_DISCOUNT}

PackQuantities == {1, 3, 9, 17}

PackItems ==
  {Item(s, q) : s \in PackSkus, q \in PackQuantities}
    \cup {[sku |-> Absent(<<>>), quantity |-> Val(1)]}

PackOrders ==
  {Order(Val({}), Weight("num", 20), SomeDims, UpsGround, Located, i, Val(US)) :
     i \in SeqsUpTo(PackItems, MaxItems)}

InitPack == InitWith({1}, PackOrders, ClassifyOracles)

SpecPack == InitPack /\ [][Next]_vars

\* one order with every field the classifier reads absent, null or set
IncompleteTagIds == {Absent({}), Null({}), Val({}), Val({PITB_TAG})}

IncompleteAdvancedOptions ==
  {Absent(NoAdvancedOptions), Null(NoAdvancedOptions),
   AdvancedOptions(Absent(FALSE), Absent("")),
   AdvancedOptions(Val(FALSE), Null("")), Located}

IncompleteItems ==
  {Absent(<<>>), Null(<<>>), Val(<<>>),
   Val(<<[sku |-> Absent(<<>>), quantity |-> Absent(0)]>>),
   Val(<<[sku |-> Null(<<>>), quantity |-> Val(1)]>>),
   Val(<<Item(SKU_4IN, 3)>>)}

IncompleteOrders ==
  {FetchedOrder(t, w, d, c, a, i, Val(US)) :
     t \in IncompleteTagIds, w \in ClassifyWeights, d \in ClassifyDims,
     c \in ClassifyCarriers, a \in IncompleteAdvancedOptions, i \in IncompleteItems}

InitIncomplete == InitWith({1}, IncompleteOrders, ClassifyOracles)

SpecIncomplete == InitIncomplete /\ [][Next]_vars

-----------------------------------------------------------------------------
(* ss_automator.py: the same flow without PITB rules, with one rate request *)
(* per order, and with the selection and processing loop written twice     *)
(* (lines 369-393 and 399-423).  Orders are modelled with tagIds, weight,   *)
(* advancedOptions and items absent or set, and every item with a sku; a   *)
(* null there raises in this script's helpers.                             *)

ss_is_edge_case(order) ==
  IF has_edge_tag(order) THEN mark_edge_case("already_tagged")
  ELSE IF has_processed_tag(order) THEN Verdict(FALSE, "already_processed", FALSE)
  ELSE IF is_merged(order) THEN mark_edge_case("merged")
  ELSE IF has_no_location(order) THEN mark_edge_case("no_location")
  ELSE IF has_no_shipping_settings(order) THEN mark_edge_case("missing_shipping")
  ELSE IF has_new_item(order) THEN mark_edge_case("new_sku")
  ELSE Verdict(FALSE, "routine", FALSE)

\* position of the script in pass p (1: lines 369-393, 2: lines 399-423)
SsPc(stage, p) ==
  IF stage = "classify" THEN <<"ss_classify_1", "ss_classify_2">>[p]
  ELSE IF stage = "estimate" THEN <<"ss_estimate_1", "ss_estimate_2">>[p]
  ELSE IF stage = "rates" THEN <<"ss_rates_1", "ss_rates_2">>[p]
  ELSE <<"ss_account_1", "ss_account_2">>[p]

SsPasses == {1, 2}

\* where the script goes when the loop of pass p is over
ss_after_loop(p) == IF p = 1 THEN SsPc("classify", 2) ELSE after_processing

\* one element of the comprehension  orders_to_process = [...]  of pass p
SsClassifyOrder(p) ==
  /\ pc = SsPc("classify", p)
  /\ LET i == eligible[ci]
         v == ss_is_edge_case(orders[i])
         sel == IF ~v.edge /\ ~has_processed_tag(orders[i])
                  THEN Append(orders_to_process, i) ELSE orders_to_process
         last == ci = Len(eligible)
     IN /\ verdicts' = [verdicts EXCEPT ![i] = v]
        /\ IF v.tagged THEN assign_tag(orders[i].orderId, EDGE_CASE_TAG)
                       ELSE UNCHANGED <<tagReqs, tagResp>>
        /\ orders_to_process' = sel
        /\ ci' = IF last THEN 1 ELSE ci + 1
        /\ pc' = IF ~last THEN SsPc("classify", p)
                 ELSE IF sel # <<>> THEN SsPc("estimate", p)
                 ELSE ss_after_loop(p)
  /\ UNCHANGED listVars
  /\ UNCHANGED <<orders, eligible, rateOracle, pi, carrierIdx, all_rates, bi,
                 outcome, estimated, rateReqs>>

SsAssignWeightAndDimensions(p) ==
  /\ pc = SsPc("estimate", p)
  /\ orders' = [orders EXCEPT ![cur] = assign_weight_and_dimensions(@)]
  /\ estimated' = Append(estimated, orders[cur].orderId)
  /\ pc' = SsPc("rates", p)
  /\ UNCHANGED listVars
  /\ UNCHANGED <<eligible, rateOracle, ci, orders_to_process, pi, carrierIdx,
                 all_rates, bi, verdicts, outcome, rateReqs, tagReqs, tagResp>>

\* set_shipping_service of ss_automator.py: one request with carrierCode None
\* (the answer of pass p is rateOracle[order][p]); a failure or an empty answer
\* is printed, otherwise the cheapest quote is assigned
SsSetShippingService(p) ==
  /\ pc = SsPc("rates", p)
  /\ LET resp == rateOracle[cur][p]
     IN /\ rateReqs' = Append(rateReqs,
                          [orderId |-> orders[cur].orderId,
                           carrierCode |-> <<>>,
                           weight |-> orders[cur].weight,
                           dimensions |-> orders[cur].dimensions])
        /\ all_rates' = response_rates(resp)
        /\ IF resp.kind \in {"transport", "nonlist"}
             THEN /\ pc' = "crashed"
                  /\ UNCHANGED <<orders, outcome>>
             ELSE IF resp.kind = "error" \/ resp.rates = <<>>
               THEN /\ pc' = SsPc("account", p)
                    /\ outcome' = [outcome EXCEPT ![cur] = "NoRatesFound"]
                    /\ UNCHANGED orders
               ELSE /\ pc' = SsPc("account", p)
                    /\ outcome' = [outcome EXCEPT ![cur] = "Selected"]
                    /\ orders' = [orders EXCEPT
                         ![cur].carrierCode = Val(min_by_cost(resp.rates).carrierCode),
                         ![cur].serviceCode = Val(min_by_cost(resp.rates).serviceCode)]
  /\ UNCHANGED listVars
  /\ UNCHANGED <<eligible, rateOracle, ci, orders_to_process, pi, carrierIdx, bi,
                 verdicts, estimated, tagReqs, tagResp>>

\* assign_shipping_account (a stub) and assign_tag(PROCESSED_TAG); after the
\* last order of pass 1 the second comprehension starts from an empty list
SsFinishOrder(p) ==
  /\ pc = SsPc("account", p)
  /\ assign_tag(orders[cur].orderId, PROCESSED_TAG)
  /\ LET last == pi = Len(orders_to_process)
     IN /\ pi' = IF last THEN 1 ELSE pi + 1
        /\ orders_to_process' = IF last /\ p = 1 THEN <<>> ELSE orders_to_process
        /\ pc' = IF last THEN ss_after_loop(p) ELSE SsPc("estimate", p)
  /\ UNCHANGED listVars
  /\ UNCHANGED <<orders, eligible, rateOracle, ci, carrierIdx, all_rates, bi,
                 verdicts, outcome, estimated, rateReqs>>

NextSs ==
  \/ \E p \in SsPasses : SsClassifyOrder(p)
  \/ \E p \in SsPasses : SsAssignWeightAndDimensions(p)
  \/ \E p \in SsPasses : SsSetShippingService(p)
  \/ \E p \in SsPasses : SsFinishOrder(p)
  \/ BatchTag

SsOrders ==
  {Order(Val({}), Weight("num", 20), SomeDims, UpsGround, Located,
         <<Item(SKU_4IN, 3)>>, Val(US)),
   Order(Val({}), Weight("num", 20), SomeDims, UpsGround, Located,
         <<Item(SKU_OTHER, 1)>>, Val(US)),
   Order(Val({EDGE_CASE_TAG}), Weight("num", 20), SomeDims, UpsGround, Located,
         <<Item(SKU_4IN, 1)>>, Val(US)),
   Order(Val({PROCESSED_TAG}), Weight("num", 20), SomeDims, UpsGround, Located,
         <<Item(SKU_6IN, 1)>>, Val(US)),
   Order(Val({}), Weight("num", 20), SomeDims, NoCarrier, Located,
         <<Item(SKU_4IN, 1)>>, Val(US)),
   Order(Val({WAYFAIR_TAG}), Weight("num", 20), SomeDims, UpsGround, Located,
         <<Item(SKU_BUNDLE, 1)>>, Val(US))}

\* the answers to the rate request of pass 1 and of pass 2
SsOracles ==
  {<<ListResponse(<<Quote(Q_PRIORITY, 1250), Quote(Q_FEDEX_2DAY, 800)>>),
     ListResponse(<<Quote(Q_PRIORITY, 1250)>>)>>,
   <<ErrorResponse, ListResponse(<<>>)>>,
   <<ListResponse(<<Quote(Q_MEDIA, 800)>>), TransportError>>}

InitSs ==
  \E n \in 1..MaxOrders : \E t \in [1..n -> SsOrders] : \E ro \in [1..n -> SsOracles] :
    /\ orders = [i \in 1..n |-> [t[i] EXCEPT !.orderId = i]]
    /\ rateOracle = ro
    /\ eligible = eligible_orders(orders)
    /\ pc = IF eligible = <<>> THEN "done" ELSE SsPc("classify", 1)
    /\ ci = 1
    /\ orders_to_process = <<>>
    /\ pi = 1
    /\ carrierIdx = 1
    /\ all_rates = <<>>
    /\ bi = 1
    /\ verdicts = [i \in 1..n |-> NoVerdict]
    /\ outcome = [i \in 1..n |-> "none"]
    /\ estimated = <<>>
    /\ rateReqs = <<>>
    /\ tagReqs = <<>>
    /\ tagResp = "none"
    /\ ListingOver

SpecSs == InitSs /\ [][NextSs]_vars

-----------------------------------------------------------------------------
(* Order listing: fetch_all_orders (automator_new.py), get_orders          *)
(* (api/shipstation_client.py) and get_orders_by_store (combine.py).       *)
(* orders is the list accumulated so far; it is the returned value when pc *)
(* is "returned", and nothing is returned when pc is "raised".             *)

Fetchers == {"fetch_all_orders", "get_orders", "get_orders_by_store"}

\* the orders of a page as the store lists them
PageBatch(p, size) == [j \in 1..size |-> [page |-> p, n |-> j]]

\* an answer to GET /orders: "ok" carries the orders of the page and the
\* reported page count (the pages key may be missing); "failed" is a
\* non-success status (for get_orders_by_store: a body without an orders key)
PageAnswers(p) ==
  {[kind |-> "failed", pages |-> Absent(0), orders |-> <<>>]}
    \cup {[kind |-> "ok", pages |-> n, orders |-> PageBatch(p, size)] :
            n \in {Absent(0)} \cup {Val(c) : c \in 0..MaxPages}, size \in {0, 2}}

\* payload.get("pages", 1)
reported_pages(answer) == IF answer.pages.k = "val" THEN answer.pages.v ELSE 1

\* Variant: the loop goes on until the page number exceeds the page count
is_last_page_strict(p, answer) == p > reported_pages(answer)

\* if page >= payload.get("pages", 1): break
is_last_page(p, answer) == p >= reported_pages(answer)

\* one iteration of  while True  in the listing function
FetchPage ==
  /\ pc = "listing"
  /\ \E answer \in PageAnswers(page) :
       /\ pageLog' = Append(pageLog, [page |-> page, answer |-> answer])
       /\ IF answer.kind = "failed"
            THEN /\ pc' = IF fetcher = "get_orders" THEN "raised" ELSE "returned"
                 /\ UNCHANGED <<orders, page>>
            ELSE /\ orders' = orders \o answer.orders
                 /\ IF is_last_page(page, answer)
                      THEN pc' = "returned" /\ UNCHANGED page
                      ELSE pc' = "listing" /\ page' = page + 1
  /\ UNCHANGED <<eligible, rateOracle, ci, orders_to_process, pi, carrierIdx,
                 all_rates, bi, verdicts, outcome, estimated, rateReqs, tagReqs,
                 tagResp, fetcher>>

NextListing == FetchPage

InitListing ==
  /\ fetcher \in Fetchers
  /\ page = 1
  /\ pageLog = <<>>
  /\ orders = <<>>
  /\ pc = "listing"
  /\ rateOracle = <<>>
  /\ eligible = <<>>
  /\ ci = 1
  /\ orders_to_process = <<>>
  /\ pi = 1
  /\ carrierIdx = 1
  /\ all_rates = <<>>
  /\ bi = 1
  /\ verdicts = <<>>
  /\ outcome = <<>>
  /\ estimated = <<>>
  /\ rateReqs = <<>>
  /\ tagReqs = <<>>
  /\ tagResp = "none"

\* the loop is sequential code: an enabled iteration is executed
SpecListing == InitListing /\ [][NextListing]_vars /\ WF_vars(FetchPage)

-----------------------------------------------------------------------------
(* Split-shipment script (combine.py).  orders is all_ready_orders, ci the *)
(* position of the running loop, tagReqs the requests sent to the store.   *)

SPLIT_TAG_ID == 142954

SPLIT_NOTE ==
  <<"N", "o", "t", "e", ":", " ", "Y", "o", "u", "r", " ", "o", "r", "d", "e", "r">>

\* order.get("tagIds", []): the list, [] when the key is missing; a null value
\* comes back as None, and  SPLIT_TAG_ID in None  raises TypeError
current_tags(order) == IF order.tagIds.k = "val" THEN order.tagIds.v ELSE {}

\* (order.get("customerNotes") or "")
customer_notes(order) ==
  IF order.customerNotes.k = "val" THEN order.customerNotes.v ELSE <<>>

has_split_note(order) == contains(customer_notes(order), SPLIT_NOTE)

\* tuple(sorted(order['shipTo'].items()))
ship_key(order) == <<<<"name", order.shipTo.name>>, <<"street1", order.shipTo.street1>>>>

\* grouped[key]: the orders of one address, in fetch order
grouped(os, key) == SelectSeq(os, LAMBDA o : ship_key(o) = key)

RECURSIVE duplicates_from(_, _)
\* the groups whose first order is at position i or later, in the order their
\* keys were first seen, groups of one order left out
duplicates_from(os, i) ==
  IF i > Len(os) THEN <<>>
  ELSE (IF /\ \A j \in 1..(i - 1) : ship_key(os[j]) # ship_key(os[i])
           /\ Len(grouped(os, ship_key(os[i]))) > 1
          THEN grouped(os, ship_key(os[i]))
          ELSE <<>>)
       \o duplicates_from(os, i + 1)

\* duplicates = [o for group in grouped.values() if len(group) > 1 for o in group]
duplicates(os) == duplicates_from(os, 1)

\* order in duplicates  (list membership compares the dicts by value)
in_duplicates(order, os) ==
  \E n \in 1..Len(duplicates(os)) : duplicates(os)[n] = order

CombineRequest(order, op) == [orderId |-> order.orderId, tagId |-> SPLIT_TAG_ID, op |-> op]

\* the requests one iteration of Step 3 sends for an order: the two  if
\* statements are evaluated one after the other
untag_requests(order, os) ==
  (IF SPLIT_TAG_ID \in current_tags(order) /\ ~in_duplicates(order, os)
     THEN <<CombineRequest(order, "removetag")>> ELSE <<>>)
  \o (IF has_split_note(order) /\ SPLIT_TAG_ID \in current_tags(order)
        THEN <<CombineRequest(order, "removetag")>> ELSE <<>>)

\* where the script goes after the Step 3 loop and after the Step 4 loop
combine_after(stage, n, os) ==
  IF stage = "untag"
    THEN (IF n <= Len(os) THEN <<"untag", n>>
          ELSE IF duplicates(os) # <<>> THEN <<"tag", 1>> ELSE <<"done", 1>>)
    ELSE (IF n <= Len(duplicates(os)) THEN <<"tag", n>> ELSE <<"done", 1>>)

\* Step 3: one iteration of  for order in all_ready_orders
UntagOrder ==
  /\ pc = "untag"
  /\ IF orders[ci].tagIds.k = "null"
       THEN /\ pc' = "crashed"
            /\ UNCHANGED <<ci, tagReqs, tagResp>>
       ELSE /\ tagReqs' = tagReqs \o untag_requests(orders[ci], orders)
            /\ IF untag_requests(orders[ci], orders) = <<>>
                 THEN UNCHANGED tagResp
                 ELSE tagResp' \in {"ok", "failed"}
            /\ pc' = combine_after("untag", ci + 1, orders)[1]
            /\ ci' = combine_after("untag", ci + 1, orders)[2]
  /\ UNCHANGED <<orders, eligible, rateOracle, orders_to_process, pi,
                 carrierIdx, all_rates, bi, verdicts, outcome, estimated, rateReqs>>
  /\ UNCHANGED listVars

\* Step 4: one iteration of  for order in duplicates, assign_order_tag
\* included (it reads the order back, and sends the update only after a
\* successful read)
TagDuplicate ==
  /\ pc = "tag"
  /\ IF duplicates(orders)[ci].tagIds.k = "null"
       THEN /\ pc' = "crashed"
            /\ UNCHANGED <<ci, tagReqs, tagResp>>
       ELSE /\ IF /\ SPLIT_TAG_ID \notin current_tags(duplicates(orders)[ci])
                  /\ ~has_split_note(duplicates(orders)[ci])
                 THEN \E read \in {"ok", "failed"} :
                        IF read = "ok"
                          THEN /\ tagReqs' = tagReqs \o
                                    <<CombineRequest(duplicates(orders)[ci], "get"),
                                      CombineRequest(duplicates(orders)[ci], "createorder")>>
                               /\ tagResp' \in {"ok", "failed"}
                          ELSE /\ tagReqs' = Append(tagReqs,
                                    CombineRequest(duplicates(orders)[ci], "get"))
                               /\ tagResp' = "failed"
                 ELSE UNCHANGED <<tagReqs, tagResp>>
            /\ pc' = combine_after("tag", ci + 1, orders)[1]
            /\ ci' = combine_after("tag", ci + 1, orders)[2]
  /\ UNCHANGED <<orders, eligible, rateOracle, orders_to_process, pi,
                 carrierIdx, all_rates, bi, verdicts, outcome, estimated, rateReqs>>
  /\ UNCHANGED listVars

NextCombine == UntagOrder \/ TagDuplicate

CombineTagIds == {Absent({}), Null({}), Val({}), Val({SPLIT_TAG_ID})}

CombineNotes == {Null(<<>>), Val(SPLIT_NOTE \o <<"!">>), Val(lower(SPLIT_NOTE))}

CombineAddresses ==
  {[name |-> "A", street1 |-> "1 Elm"], [name |-> "A", street1 |-> "2 Oak"]}

\* the fetched orders: distinct orderIds, any mix of tags, notes and addresses
CombineOrders(n) ==
  {[i \in 1..n |-> [orderId |-> i, tagIds |-> f[i][1], customerNotes |-> f[i][2],
                    shipTo |-> f[i][3]]] :
     f \in [1..n -> CombineTagIds \X CombineNotes \X CombineAddresses]}

InitCombine ==
  /\ \E n \in 1..MaxOrders : orders \in CombineOrders(n)
  /\ pc = "untag"
  /\ ci = 1
  /\ rateOracle = <<>>
  /\ eligible = <<>>
  /\ orders_to_process = <<>>
  /\ pi = 1
  /\ carrierIdx = 1
  /\ all_rates = <<>>
  /\ bi = 1
  /\ verdicts = <<>>
  /\ outcome = <<>>
  /\ estimated = <<>>
  /\ rateReqs = <<>>
  /\ tagReqs = <<>>
  /\ tagResp = "none"
  /\ ListingOver

SpecCombine == InitCombine /\ [][NextCombine]_vars

-----------------------------------------------------------------------------
(* Classification claims, checked under SpecClassify                       *)

\* Before the processing loop starts the orders are as fetched and every
\* addtag request in tagReqs was sent by is_edge_case.
AsFetched == estimated = <<>>

Classified(i) == verdicts[i].reason # "none"

EdgeTagAdds(i) ==
  {n \in 1..Len(tagReqs) :
     tagReqs[n] = [orderId |-> orders[i].orderId, tagId |-> EDGE_CASE_TAG]}

TagsOf(i) == IF orders[i].tagIds.k = "val" THEN orders[i].tagIds.v ELSE {}

WeightNonZero(i) == orders[i].weight.k = "num" /\ orders[i].weight.v # 0

DimsPresent(i) == orders[i].dimensions.k = "val"

MergeFlag(i) ==
  /\ orders[i].advancedOptions.k = "val"
  /\ orders[i].advancedOptions.v.mergedOrSplit = Val(TRUE)

LocationMissing(i) ==
  \/ orders[i].advancedOptions.k # "val"
  \/ orders[i].advancedOptions.v.customField2.k # "val"
  \/ orders[i].advancedOptions.v.customField2.v \in {"", "No Location"}

\* C1: an order with the PITB tag, a non-zero weight value and dimensions is
\* classified routine by is_edge_case (False, no EDGE_CASE addtag), whatever
\* its other tags, merge flag, location, carrier code and items are.
C1_PitbWithDataIsRoutine ==
  AsFetched =>
    \A i \in DOMAIN orders :
      (Classified(i) /\ PITB_TAG \in TagsOf(i) /\ WeightNonZero(i) /\ DimsPresent(i))
        => /\ ~verdicts[i].edge
           /\ verdicts[i].reason = "pitb_skip"
           /\ EdgeTagAdds(i) = {}

C1_Witness ==
  /\ AsFetched
  /\ \E i \in DOMAIN orders :
       /\ Classified(i) /\ WeightNonZero(i) /\ DimsPresent(i)
       /\ {PITB_TAG, EDGE_CASE_TAG, PROCESSED_TAG} \subseteq TagsOf(i)
       /\ MergeFlag(i) /\ LocationMissing(i)
       /\ orders[i].carrierCode.k # "val"
       /\ ~verdicts[i].edge

\* C2: an order with the PITB tag whose weight value is 0 or absent, or whose
\* dimensions are absent, is an edge case with reason
\* pitb_missing_critical_shipping_data and gets exactly one EDGE_CASE addtag
\* from is_edge_case, also when the other field is present; no later rule decides.
C2_PitbMissingDataIsEdge ==
  AsFetched =>
    \A i \in DOMAIN orders :
      (Classified(i) /\ PITB_TAG \in TagsOf(i) /\ (~WeightNonZero(i) \/ ~DimsPresent(i)))
        => /\ verdicts[i].edge
           /\ verdicts[i].reason = "pitb_missing_critical_shipping_data"
           /\ Cardinality(EdgeTagAdds(i)) = 1

C2_Witness ==
  /\ AsFetched
  /\ \E i \in DOMAIN orders :
       /\ Classified(i) /\ PITB_TAG \in TagsOf(i)
       /\ orders[i].weight.k = "num" /\ orders[i].weight.v = 0 /\ DimsPresent(i)
       /\ PROCESSED_TAG \in TagsOf(i) /\ MergeFlag(i)
       /\ verdicts[i].reason = "pitb_missing_critical_shipping_data"
       /\ Cardinality(EdgeTagAdds(i)) = 1

\* The rules for orders without PITB, in their fixed order
RuleOrder ==
  <<"already_tagged", "already_processed", "merged", "no_location",
    "missing_shipping", "new_sku">>

RuleHolds(rule, i) ==
  IF rule = "already_tagged" THEN EDGE_CASE_TAG \in TagsOf(i)
  ELSE IF rule = "already_processed" THEN PROCESSED_TAG \in TagsOf(i)
  ELSE IF rule = "merged" THEN MergeFlag(i)
  ELSE IF rule = "no_location" THEN LocationMissing(i)
  ELSE IF rule = "missing_shipping" THEN has_no_shipping_settings(orders[i])
  ELSE has_new_item(orders[i])

\* C3: without the PITB tag the reported reason is that of the earliest rule
\* of RuleOrder whose predicate holds, and the order is routine exactly when
\* none holds; merged with no location (and no tags) reports merged.
C3_FirstMatchWins ==
  AsFetched =>
    \A i \in DOMAIN orders :
      (Classified(i) /\ PITB_TAG \notin TagsOf(i))
        => /\ \A n \in 1..Len(RuleOrder) :
                (RuleHolds(RuleOrder[n], i)
                 /\ \A m \in 1..(n - 1) : ~RuleHolds(RuleOrder[m], i))
                  => verdicts[i].reason = RuleOrder[n]
           /\ (verdicts[i].reason = "routine"
                 <=> \A n \in 1..Len(RuleOrder) : ~RuleHolds(RuleOrder[n], i))
           /\ (verdicts[i].edge <=> verdicts[i].reason \notin {"routine", "already_processed"})

C3_Witness ==
  /\ AsFetched
  /\ \E i \in DOMAIN orders :
       /\ Classified(i) /\ TagsOf(i) = {}
       /\ MergeFlag(i) /\ LocationMissing(i)
       /\ verdicts[i].reason = "merged"

NoProcessingOf(i) ==
  /\ \A n \in 1..Len(estimated) : estimated[n] # orders[i].orderId
  /\ \A n \in 1..Len(rateReqs) : rateReqs[n].orderId # orders[i].orderId
  /\ \A n \in 1..Len(tagReqs) :
       tagReqs[n] # [orderId |-> orders[i].orderId, tagId |-> PROCESSED_TAG]

\* C4: an order with the PROCESSED tag and neither PITB nor EDGE_CASE is
\* classified already-processed whatever its merge flag, location and shipping
\* fields are; it gets no EDGE_CASE addtag and the driver never estimates its
\* packaging, requests rates or adds the PROCESSED tag for it.
C4_ProcessedIsLeftAlone ==
  \A i \in DOMAIN orders :
    (PROCESSED_TAG \in TagsOf(i) /\ PITB_TAG \notin TagsOf(i)
       /\ EDGE_CASE_TAG \notin TagsOf(i))
      => /\ Classified(i) => (verdicts[i].reason = "already_processed" /\ ~verdicts[i].edge)
         /\ EdgeTagAdds(i) = {}
         /\ NoProcessingOf(i)

C4_Witness ==
  /\ pc = "done"
  /\ \E i \in DOMAIN orders :
       /\ PROCESSED_TAG \in TagsOf(i) /\ PITB_TAG \notin TagsOf(i)
       /\ EDGE_CASE_TAG \notin TagsOf(i)
       /\ MergeFlag(i) /\ LocationMissing(i) /\ ~WeightNonZero(i)
       /\ verdicts[i].reason = "already_processed"

\* C5: EDGE_CASE is added for every order classified as an edge case except
\* for reason already_tagged: no EDGE_CASE addtag is sent for an order whose
\* tag set already contains EDGE_CASE.
C5_NoAddWhenAlreadyTagged ==
  AsFetched =>
    \A i \in DOMAIN orders :
      /\ (Classified(i) /\ verdicts[i].edge /\ verdicts[i].reason # "already_tagged")
           => EdgeTagAdds(i) # {}
      /\ EDGE_CASE_TAG \in TagsOf(i) => EdgeTagAdds(i) = {}

\* C6: is_edge_case leaves the in-memory order as it was, so a second call
\* right after the first returns the recorded result.
C6_ClassifyTwiceSame ==
  [][pc = "classify"
       => /\ orders' = orders
          /\ is_edge_case(orders'[eligible[ci]]) = verdicts'[eligible[ci]]]_vars

C6_Witness ==
  /\ AsFetched
  /\ \E i \in DOMAIN orders :
       /\ Classified(i) /\ verdicts[i].reason = "merged"
       /\ Cardinality(EdgeTagAdds(i)) = 1
       /\ is_edge_case(orders[i]) = verdicts[i]

-----------------------------------------------------------------------------
(* Rate selection claims                                                   *)

\* the answer carries no quote: non-success status, a body that is no list,
\* or an empty list
NoQuotes(resp) == resp.kind \in {"error", "nonlist"} \/ (resp.kind = "list" /\ resp.rates = <<>>)

AllCarriersFailed(i) == \A k \in 1..Len(carriers) : NoQuotes(rateOracle[i][k])

RateReqsOf(i) == SelectSeq(rateReqs, LAMBDA r : r.orderId = orders[i].orderId)

\* C7 (under Spec): when all three rate requests of an order return no quotes,
\* set_shipping_service ends with NoRatesFound and no exception: it sends one
\* EDGE_CASE addtag for the order, leaves carrierCode and serviceCode as they
\* were, and the loop goes on (every selected order is estimated and has its
\* three rate requests when the run is done).
C7_NoRatesFound ==
  /\ [][(pc = "select" /\ AllCarriersFailed(cur))
          => /\ pc' = "account"
             /\ outcome'[cur] = "NoRatesFound"
             /\ tagReqs' = Append(tagReqs, [orderId |-> orders[cur].orderId,
                                            tagId |-> EDGE_CASE_TAG])
             /\ orders'[cur].carrierCode = orders[cur].carrierCode
             /\ orders'[cur].serviceCode = orders[cur].serviceCode]_vars
  /\ [](pc = "done" =>
          \A n \in 1..Len(orders_to_process) :
             /\ estimated[n] = orders[orders_to_process[n]].orderId
             /\ Len(RateReqsOf(orders_to_process[n])) = Len(carriers)
             /\ outcome[orders_to_process[n]] \in {"NoRatesFound", "Selected"})

C7_Witness ==
  /\ pc = "done"
  /\ Len(orders_to_process) = 2
  /\ AllCarriersFailed(orders_to_process[1])
  /\ outcome[orders_to_process[1]] = "NoRatesFound"
  /\ outcome[orders_to_process[2]] = "Selected"
  /\ \E n \in 1..Len(tagReqs) :
       tagReqs[n] = [orderId |-> orders[orders_to_process[1]].orderId,
                     tagId |-> EDGE_CASE_TAG]

RECURSIVE ReturnedQuotes(_, _)
ReturnedQuotes(i, k) ==
  IF k = 0 THEN <<>>
  ELSE ReturnedQuotes(i, k - 1)
       \o (IF rateOracle[i][k].kind = "list" THEN rateOracle[i][k].rates ELSE <<>>)

\* C8 (under SpecRates): a failed rate request of one carrier, by status or by
\* transport error, is not fatal: the script does not end, the three carriers
\* are each queried once in the order stamps_com, ups, fedex, and the pool is
\* exactly the quotes of the carriers that answered with a list.
C8_CarrierFailureNotFatal ==
  /\ pc # "crashed"
  /\ pc = "select" =>
       /\ [n \in 1..Len(RateReqsOf(cur)) |-> RateReqsOf(cur)[n].carrierCode] = carriers
       /\ all_rates = ReturnedQuotes(cur, Len(carriers))

PoolSet == {all_rates[n] : n \in 1..Len(all_rates)}

QuoteCost(q) == IF q.shipmentCost.k = "val" THEN q.shipmentCost.v ELSE INF_COST

Assigned(i, q) ==
  /\ orders[i].carrierCode = Val(q.carrierCode)
  /\ orders[i].serviceCode = Val(q.serviceCode)

Mentions(q, keywords) ==
  \E n \in 1..Len(keywords) :
     \/ contains(lower(q.serviceCode), keywords[n])
     \/ contains(lower(q.serviceName), keywords[n])
     \/ contains(lower(q.carrierCode), keywords[n])

Expedited(i) == EXPEDITED_TAG \in TagsOf(i)

Domestic(i) ==
  \/ orders[i].shipTo.country.k # "val"
  \/ upper(orders[i].shipTo.country.v) \in {<<>>, US, USA}

\* the weight the shipment descriptor carries: the order's value, the fixed
\* fallback when the order has no weight, 0 when the value is unusable
KnownWeight(i) ==
  IF orders[i].weight.k = "num" THEN orders[i].weight.v
  ELSE IF orders[i].weight.k = "absent" THEN FALLBACK_WEIGHT_OZ
  ELSE 0

\* keyword sets of the preference rules that apply to order i
ApplicableKeywords(i) ==
  (IF Expedited(i) THEN {KW_EXPEDITED} ELSE {})
  \cup (IF Domestic(i) /\ KnownWeight(i) > 0 /\ KnownWeight(i) < 16 THEN {KW_LIGHT} ELSE {})
  \cup (IF Domestic(i) /\ KnownWeight(i) > 0 THEN {KW_STANDARD} ELSE {})
  \cup (IF ~Domestic(i) THEN {KW_INTERNATIONAL} ELSE {})

\* set_shipping_service has just returned a selection for the current order;
\* all_rates is its pool
JustSelected == pc = "account" /\ outcome[cur] = "Selected"

\* C9 (under SpecRates): when no quote of a non-empty pool matches the keywords
\* of an applicable preference rule, the order gets the carrier and service
\* code of a quote of minimum cost in the pool.
C9_CheapestFallback ==
  (JustSelected
     /\ \A q \in PoolSet : \A kw \in ApplicableKeywords(cur) : ~Mentions(q, kw))
    => \E q \in PoolSet :
         /\ \A r \in PoolSet : QuoteCost(q) <= QuoteCost(r)
         /\ Assigned(cur, q)

C9_Witness ==
  /\ JustSelected
  /\ \A q \in PoolSet : \A kw \in ApplicableKeywords(cur) : ~Mentions(q, kw)
  /\ {QuoteCost(q) : q \in PoolSet} = {1250, 800, 1500}
  /\ Assigned(cur, Quote(Q_UPS_NEXT_DAY, 800))

\* C10 (under SpecRates): for an order with the expedited tag and a pool with
\* at least one quote whose service code, service name or carrier code
\* contains an express keyword (ignoring case), the chosen quote is one of
\* lowest cost among the matching quotes, whatever cheaper other quotes,
\* country and weight there are.
C10_ExpeditedPrefersExpress ==
  (JustSelected /\ Expedited(cur)
     /\ \E q \in PoolSet : Mentions(q, KW_EXPEDITED))
    => \E q \in PoolSet :
         /\ Mentions(q, KW_EXPEDITED)
         /\ \A r \in PoolSet : Mentions(r, KW_EXPEDITED) => QuoteCost(q) <= QuoteCost(r)
         /\ Assigned(cur, q)

C10_Witness ==
  /\ JustSelected /\ Expedited(cur)
  /\ ~Domestic(cur)
  /\ PoolSet = {Quote(Q_PM_EXPRESS, 1500), Quote(Q_UPS_2DAY, 1250), Quote(Q_FEDEX_INTL, 800)}
  /\ Assigned(cur, Quote(Q_UPS_2DAY, 1250))

\* the quotes of the pool that mention a keyword of the list, pool order kept
Matching(keywords) == SelectSeq(all_rates, LAMBDA q : Mentions(q, keywords))

\* position n holds a quote of lowest cost among the quotes of seq
Cheapest(seq, n) == \A m \in 1..Len(seq) : QuoteCost(seq[n]) <= QuoteCost(seq[m])

AssignedCheapestOf(i, seq) ==
  \E n \in 1..Len(seq) : Cheapest(seq, n) /\ Assigned(i, seq[n])

ExpeditedMatch(i) == Expedited(i) /\ Matching(KW_EXPEDITED) # <<>>

\* C12 (under SpecRates): for a destination country outside {US, USA} and no
\* expedited match, the chosen quote is the cheapest quote that mentions an
\* international-service keyword when there is one and the cheapest quote of
\* the pool otherwise; quotes that only mention a lightweight or standard
\* keyword get no preference.
C12_InternationalRule ==
  (JustSelected /\ ~Domestic(cur) /\ ~ExpeditedMatch(cur))
    => IF Matching(KW_INTERNATIONAL) # <<>>
         THEN AssignedCheapestOf(cur, Matching(KW_INTERNATIONAL))
         ELSE AssignedCheapestOf(cur, all_rates)

C12_Witness ==
  /\ JustSelected /\ ~Domestic(cur) /\ ~Expedited(cur)
  /\ orders[cur].weight.v = 16
  /\ PoolSet = {Quote(Q_PRIORITY, 800), Quote(Q_UPS_2DAY, 1250), Quote(Q_FEDEX_INTL, 800)}
  /\ Assigned(cur, Quote(Q_FEDEX_INTL, 800))

\* the candidates of the rule that decided for order i, in discovery order
\* (carrier order, then response order): the matches of the first applicable
\* preference rule that has any, and the whole pool when none has
AppliedCandidates(i) ==
  LET found == ReturnedQuotes(i, Len(carriers))
      sel(kw) == SelectSeq(found, LAMBDA q : Mentions(q, kw))
  IN IF Expedited(i) /\ sel(KW_EXPEDITED) # <<>> THEN sel(KW_EXPEDITED)
     ELSE IF Domestic(i) /\ KnownWeight(i) > 0 /\ KnownWeight(i) < 16
             /\ sel(KW_LIGHT) # <<>> THEN sel(KW_LIGHT)
     ELSE IF Domestic(i) /\ KnownWeight(i) > 0 /\ sel(KW_STANDARD) # <<>>
       THEN sel(KW_STANDARD)
     ELSE IF ~Domestic(i) /\ sel(KW_INTERNATIONAL) # <<>> THEN sel(KW_INTERNATIONAL)
     ELSE found

CostsOf(seq) == {QuoteCost(seq[n]) : n \in 1..Len(seq)}

C11_DomesticLightThenStandard ==
  (JustSelected /\ Domestic(cur) /\ KnownWeight(cur) > 0 /\ ~ExpeditedMatch(cur))
    => LET light == KnownWeight(cur) < 16 /\ Matching(KW_LIGHT) # <<>>
       IN /\ light => AssignedCheapestOf(cur, Matching(KW_LIGHT))
          /\ (~light /\ Matching(KW_STANDARD) # <<>>)
               => AssignedCheapestOf(cur, Matching(KW_STANDARD))
          /\ (~light /\ Matching(KW_STANDARD) = <<>>)
               => AssignedCheapestOf(cur, all_rates)

C11_Witness ==
  /\ JustSelected /\ Domestic(cur) /\ ~Expedited(cur)
  /\ orders[cur].weight = Weight("num", 8)
  /\ PoolSet = {Quote(Q_GROUND_ADVANTAGE, 1500), Quote(Q_FIRST_CLASS, 1250),
                Quote(Q_UPS_GROUND, 1250), Quote(Q_FEDEX_INTL, 800)}
  /\ Assigned(cur, Quote(Q_FIRST_CLASS, 1250))

-----------------------------------------------------------------------------
(* Packaging claims, checked under SpecPack                                *)

Estimated(i) == \E n \in 1..Len(estimated) : estimated[n] = orders[i].orderId

\* the line items of the order (the run never changes them)
Lines(i) == IF orders[i].items.k = "val" THEN orders[i].items.v ELSE <<>>

LineSku(it) == IF it.sku.k = "val" THEN it.sku.v ELSE <<>>

\* the SKU weight table with its default
PerUnitWeight(sku) ==
  CASE sku = SKU_4IN -> 16
    [] sku = SKU_6IN -> 40
    [] sku = SKU_8IN -> 64
    [] sku = SKU_BUNDLE -> 56
    [] OTHER -> 16

RECURSIVE SumOf(_)
SumOf(numbers) == IF numbers = <<>> THEN 0 ELSE Head(numbers) + SumOf(Tail(numbers))

\* weight of each line, the SKU looked up as written
LineWeightsAsWritten(items) ==
  [n \in 1..Len(items) |-> PerUnitWeight(LineSku(items[n])) * items[n].quantity.v]

\* weight of each line, the SKU looked up in upper case
LineWeights(items) ==
  [n \in 1..Len(items) |-> PerUnitWeight(upper(LineSku(items[n]))) * items[n].quantity.v]

LineCounts(items) == [n \in 1..Len(items) |-> items[n].quantity.v]

\* C14 as stated: the assigned weight is the sum over the line items of
\* perUnitWeight(sku) * quantity in ounces, perUnitWeight being the table
\* entry of the SKU and 16 for a SKU that is not in the table.
C14_WeightIsTableSum ==
  \A i \in DOMAIN orders :
    Estimated(i) => orders[i].weight = Weight("num", SumOf(LineWeightsAsWritten(Lines(i))))

\* C14 (amended, under SpecPack): the assigned weight is the sum over the line
\* items of perUnitWeight(SKU in upper case) * quantity in ounces, with the
\* table 4IN-PLANT 16, 6IN-PLANT 40, 8IN-PLANT 64, BUNDLE 56 and 16 otherwise.
C14_WeightIsSum ==
  \A i \in DOMAIN orders :
    Estimated(i) => orders[i].weight = Weight("num", SumOf(LineWeights(Lines(i))))

C14_Witness ==
  \E i \in DOMAIN orders :
    /\ Estimated(i)
    /\ Lines(i) = <<Item(SKU_4IN, 3), Item(SKU_6IN_LOWER, 1)>>
    /\ orders[i].weight = Weight("num", 88)

LargeLine(it) ==
  startswith(upper(LineSku(it)), PREFIX_8IN) \/ upper(LineSku(it)) = SKU_BUNDLE

HasLargeLine(items) == \E n \in 1..Len(items) : LargeLine(items[n])

BoxDims(b) ==
  Val([length |-> b.length, width |-> b.width, height |-> b.height, units |-> "inches"])

\* first catalog entry that holds count items, the largest when none does
BoxFor(count) ==
  LET fits == {n \in 1..Len(BOX_SIZES) : BOX_SIZES[n].max_items >= count}
  IN IF fits = {} THEN BOX_SIZES[Len(BOX_SIZES)]
     ELSE BOX_SIZES[CHOOSE n \in fits : \A m \in fits : n <= m]

\* C15 (under SpecPack): the catalog is ascending in max_items (1, 2, 4, 8, 16)
\* and, when no line item is large, the box is the first entry whose max_items
\* is at least the sum of the quantities, the largest entry when the sum
\* exceeds every max_items.
C15_FirstFittingBox ==
  /\ [n \in 1..Len(BOX_SIZES) |-> BOX_SIZES[n].max_items] = <<1, 2, 4, 8, 16>>
  /\ \A i \in DOMAIN orders :
       (Estimated(i) /\ ~HasLargeLine(Lines(i)))
         => orders[i].dimensions = BoxDims(BoxFor(SumOf(LineCounts(Lines(i)))))

C15_Witness ==
  \E i \in DOMAIN orders :
    /\ Estimated(i)
    /\ Lines(i) = <<Item(SKU_6IN, 3)>>
    /\ orders[i].dimensions
         = Val([length |-> 12, width |-> 10, height |-> 8, units |-> "inches"])

\* C16 (under SpecPack): when some line item has SKU BUNDLE or a SKU starting
\* with 8IN (in upper case) the box is the second-largest entry, 16x12x10,
\* whatever the total item count is.
C16_LargeItemBox ==
  \A i \in DOMAIN orders :
    (Estimated(i) /\ HasLargeLine(Lines(i)))
      => /\ orders[i].dimensions = BoxDims(BOX_SIZES[Len(BOX_SIZES) - 1])
         /\ orders[i].dimensions
              = Val([length |-> 16, width |-> 12, height |-> 10, units |-> "inches"])

C16_Witness ==
  \E i \in DOMAIN orders :
    /\ Estimated(i)
    /\ Lines(i) = <<Item(SKU_8IN_OTHER, 1), Item(SKU_4IN, 17)>>
    /\ orders[i].dimensions
         = Val([length |-> 16, width |-> 12, height |-> 10, units |-> "inches"])

ProductLines(items) == SelectSeq(items, LAMBDA it : LineSku(it) # SKU_DISCOUNT)

\* C17: line items with SKU "total-discount" add nothing to the estimated
\* weight and nothing to the item count that selects the box, and are never
\* among the SKUs looked up in the new-SKU set.
C17_DiscountLinesIgnored ==
  \A i \in DOMAIN orders :
    /\ \A n \in 1..Len(get_skus(orders[i])) : get_skus(orders[i])[n] # SKU_DISCOUNT
    /\ Estimated(i)
         => /\ orders[i].weight
                 = Weight("num", SumOf(LineWeights(ProductLines(Lines(i)))))
            /\ ~HasLargeLine(Lines(i))
                 => orders[i].dimensions
                      = BoxDims(BoxFor(SumOf(LineCounts(ProductLines(Lines(i))))))

\* C18: after assign_weight_and_dimensions the order has a weight with a
\* non-zero value in ounces and dimensions with non-zero length, width and
\* height in inches, for every sequence of line items, the empty one included.
C18_EstimateIsNonZero ==
  \A i \in DOMAIN orders :
    Estimated(i)
      => /\ orders[i].weight.k = "num"
         /\ orders[i].weight.v # 0
         /\ orders[i].weight.units = "ounces"
         /\ orders[i].dimensions.k = "val"
         /\ orders[i].dimensions.v.length # 0
         /\ orders[i].dimensions.v.width # 0
         /\ orders[i].dimensions.v.height # 0
         /\ orders[i].dimensions.v.units = "inches"

-----------------------------------------------------------------------------
(* Missing and incomplete order data                                       *)

\* C19 (under SpecClassify): an order without PITB, EDGE_CASE and PROCESSED
\* tags, not merged and with a location, whose weight value is zero or absent
\* (no weight, no value key, or a null value) or whose carrier code or
\* dimensions are unset, is an edge case with reason missing_shipping; so an
\* order selected for processing has a non-zero weight, a carrier code and
\* dimensions.
C19_MissingShippingIsEdge ==
  AsFetched =>
    \A i \in DOMAIN orders :
      /\ (Classified(i)
            /\ TagsOf(i) \cap {PITB_TAG, EDGE_CASE_TAG, PROCESSED_TAG} = {}
            /\ ~MergeFlag(i) /\ ~LocationMissing(i)
            /\ (~WeightNonZero(i) \/ orders[i].carrierCode.k # "val" \/ ~DimsPresent(i)))
           => (verdicts[i].edge /\ verdicts[i].reason = "missing_shipping")
      /\ (verdicts[i].reason = "routine")
           => (WeightNonZero(i) /\ orders[i].carrierCode.k = "val" /\ DimsPresent(i))

\* C20 (under SpecIncomplete): is_edge_case returns a classification for every
\* eligible order, whichever of tagIds, weight, dimensions, carrierCode,
\* advancedOptions, customField2, items and an item's sku are absent or null:
\* no call ends in an exception.
C20_ClassificationNeverRaises ==
  \A i \in DOMAIN orders :
    /\ verdicts[i].reason # "TypeError"
    /\ (pc # "classify" /\ \E n \in 1..Len(eligible) : eligible[n] = i)
         => Classified(i)

-----------------------------------------------------------------------------
(* Batch driver claims, checked under Spec                                 *)

TagAdds(i, tag) ==
  {n \in 1..Len(tagReqs) : tagReqs[n] = [orderId |-> orders[i].orderId, tagId |-> tag]}

IsEligible(i) == \E n \in 1..Len(eligible) : eligible[n] = i

IsSelected(i) == \E n \in 1..Len(orders_to_process) : orders_to_process[n] = i

\* C22 (under Spec): per processed order the steps run as estimate, rate
\* selection, billing account, PROCESSED tag-add: every rate request of an
\* order is sent after its estimate and carries the estimated weight and box,
\* and the PROCESSED tag-add of an order is sent only after all its rate
\* requests and the selection are over.
C22_StepOrder ==
  \A i \in DOMAIN orders :
    /\ \A n \in 1..Len(rateReqs) :
         rateReqs[n].orderId = orders[i].orderId
           => /\ Estimated(i)
              /\ rateReqs[n].weight = Weight("num", SumOf(LineWeights(Lines(i))))
              /\ rateReqs[n].dimensions
                   = (IF HasLargeLine(Lines(i))
                        THEN BoxDims(BOX_SIZES[Len(BOX_SIZES) - 1])
                        ELSE BoxDims(BoxFor(SumOf(LineCounts(Lines(i))))))
    /\ TagAdds(i, PROCESSED_TAG) # {}
         => /\ Estimated(i)
            /\ Len(RateReqsOf(i)) = Len(carriers)
            /\ outcome[i] # "none"
            /\ (pc \in {"rates", "select", "account"} => cur # i)

C22_Witness ==
  /\ pc = "done"
  /\ \E i \in DOMAIN orders :
       /\ Lines(i) = <<Item(SKU_4IN, 3)>>
       /\ Len(RateReqsOf(i)) = Len(carriers)
       /\ RateReqsOf(i)[1].weight = Weight("num", 48)
       /\ orders[i].weight = Weight("num", 48)
       /\ Cardinality(TagAdds(i, PROCESSED_TAG)) = 1

\* the run ended by an exception
Crashed == pc = "crashed"

\* C23 (under Spec): a failed EDGE_CASE or PROCESSED tag-add ends neither the
\* run nor the order: the step after a failed tag-add is the one that follows
\* a successful one, the run only ever ends early on a transport error of a
\* rate request, and at the end every eligible order is classified and every
\* selected order is estimated, rated and has its PROCESSED tag-add.
C23_TagFailureNotFatal ==
  /\ [][(tagReqs' # tagReqs /\ tagResp' = "failed") => pc' # "crashed"]_vars
  /\ [](Crashed => rateOracle[cur][carrierIdx].kind = "transport")
  /\ [](pc = "done" =>
          \A i \in DOMAIN orders :
            /\ IsEligible(i) => Classified(i)
            /\ (IsEligible(i) /\ ~verdicts[i].edge /\ PROCESSED_TAG \notin TagsOf(i))
                 => (Estimated(i) /\ Len(RateReqsOf(i)) = Len(carriers)
                     /\ TagAdds(i, PROCESSED_TAG) # {}))

C23_Witness ==
  /\ pc = "estimate" /\ pi = 2
  /\ tagResp = "failed"
  /\ tagReqs[Len(tagReqs)]
       = [orderId |-> orders[orders_to_process[1]].orderId, tagId |-> PROCESSED_TAG]

\* C24: no order gets both an EDGE_CASE tag-add and a PROCESSED tag-add in one
\* run; an order for which rate selection found no rates is tagged EDGE_CASE
\* and not PROCESSED.
C24_EdgeCaseNotProcessed ==
  \A i \in DOMAIN orders :
    ~(TagAdds(i, EDGE_CASE_TAG) # {} /\ TagAdds(i, PROCESSED_TAG) # {})

\* C25 (under Spec): an order fetched with the PROCESSED tag is never processed
\* again, also with the PITB tag and complete shipping data (classified
\* routine): it is not estimated, gets no rate request and no PROCESSED
\* tag-add, and no step changes the in-memory order.
C25_ProcessedNeverReprocessed ==
  /\ [][\A i \in DOMAIN orders :
          PROCESSED_TAG \in TagsOf(i) => orders'[i] = orders[i]]_vars
  /\ [](\A i \in DOMAIN orders :
          PROCESSED_TAG \in TagsOf(i)
            => /\ NoProcessingOf(i)
               /\ ~IsSelected(i))

C25_Witness ==
  /\ pc = "done"
  /\ \E i \in DOMAIN orders :
       /\ {PITB_TAG, PROCESSED_TAG} \subseteq TagsOf(i)
       /\ WeightNonZero(i) /\ DimsPresent(i)
       /\ verdicts[i] = [edge |-> FALSE, reason |-> "pitb_skip", tagged |-> FALSE]
       /\ orders[i].weight = Weight("num", 20)
       /\ NoProcessingOf(i)
  /\ \E j \in DOMAIN orders : TagAdds(j, PROCESSED_TAG) # {}

\* C26 (under Spec): an order with an excluded tag (Wayfair, Public Goods) is
\* never touched: it is not classified, not estimated, and no tag-add of any
\* kind and no rate request is ever sent for it.
C26_ExcludedUntouched ==
  \A i \in DOMAIN orders :
    TagsOf(i) \cap EXCLUDED_TAG_IDS # {}
      => /\ ~IsEligible(i)
         /\ ~Classified(i)
         /\ ~Estimated(i)
         /\ RateReqsOf(i) = <<>>
         /\ \A n \in 1..Len(tagReqs) : tagReqs[n].orderId # orders[i].orderId

C26_Witness ==
  /\ pc = "done"
  /\ \E i \in DOMAIN orders :
       /\ WAYFAIR_TAG \in TagsOf(i)
       /\ Lines(i) = <<Item(SKU_BUNDLE, 1)>>
       /\ \A n \in 1..Len(tagReqs) : tagReqs[n].orderId # orders[i].orderId
  /\ \E j \in DOMAIN orders : TagAdds(j, BATCH_4IN_TAG) # {}

EstimatesOf(i) == {n \in 1..Len(estimated) : estimated[n] = orders[i].orderId}

\* C21: in one run every order is processed at most once: at most one
\* packaging estimate, at most one round of rate requests (no carrier is asked
\* twice for the order) and at most one PROCESSED tag-add.
C21_ProcessedAtMostOnce ==
  \A i \in DOMAIN orders :
    /\ Cardinality(EstimatesOf(i)) <= 1
    /\ \A n, m \in 1..Len(RateReqsOf(i)) :
         RateReqsOf(i)[n].carrierCode = RateReqsOf(i)[m].carrierCode => n = m
    /\ Cardinality(TagAdds(i, PROCESSED_TAG)) <= 1

-----------------------------------------------------------------------------
(* Order listing claim, checked under SpecListing                          *)

RECURSIVE PagesRead(_)
\* the orders of the pages answered with success, in request order
PagesRead(log) ==
  IF log = <<>> THEN <<>>
  ELSE PagesRead(SubSeq(log, 1, Len(log) - 1))
       \o (IF log[Len(log)].answer.kind = "ok" THEN log[Len(log)].answer.orders ELSE <<>>)

ReportedCount(entry) ==
  IF entry.answer.pages.k = "val" THEN entry.answer.pages.v ELSE 1

ListingEnded == pc \in {"returned", "raised"}

LastEntry == pageLog[Len(pageLog)]

\* C27 (under SpecListing): the listing requests pages 1, 2, 3, ... in
\* increasing order, each once, and ends; it ends at the first page that fails
\* or whose number is at least the reported page count.  It then returns the
\* orders of the pages read, in page order; after a failed page
\* fetch_all_orders returns what it has so far and get_orders raises.
C27_ListingPagesInOrder ==
  /\ [](/\ \A n \in 1..Len(pageLog) : pageLog[n].page = n
        /\ \A n \in 1..(Len(pageLog) - 1) :
             pageLog[n].answer.kind = "ok" /\ n < ReportedCount(pageLog[n])
        /\ orders = PagesRead(pageLog)
        /\ pc = "listing" => page = Len(pageLog) + 1
        /\ ListingEnded
             => /\ pageLog # <<>>
                /\ \/ LastEntry.answer.kind = "failed"
                   \/ LastEntry.page >= ReportedCount(LastEntry)
                /\ (pc = "raised")
                     <=> (fetcher = "get_orders" /\ LastEntry.answer.kind = "failed"))
  /\ <>ListingEnded

C27_Witness ==
  /\ fetcher = "fetch_all_orders"
  /\ pc = "returned"
  /\ Len(pageLog) = 3
  /\ LastEntry.answer.kind = "failed"
  /\ orders = PageBatch(1, 2) \o PageBatch(2, 2)

-----------------------------------------------------------------------------
(* Split-shipment claim, checked under SpecCombine                         *)

CombineSent(i, op) ==
  {n \in 1..Len(tagReqs) : tagReqs[n] = CombineRequest(orders[i], op)}

SharesAddress(i) ==
  \E j \in 1..Len(orders) : j # i /\ orders[j].shipTo = orders[i].shipTo

HasSplitTag(i) == orders[i].tagIds.k = "val" /\ SPLIT_TAG_ID \in orders[i].tagIds.v

HasNote(i) ==
  orders[i].customerNotes.k = "val" /\ contains(orders[i].customerNotes.v, SPLIT_NOTE)

\* C28 (under SpecCombine): no order gets two remove-tag requests, or a
\* remove and an add, for the split tag; when the run is over an order has one
\* remove-tag request exactly when it carries the split tag and either shares
\* its address with no other order or has the note, and one add-tag request
\* exactly when it shares its address, lacks the tag and has no note.
C28_OneTagMutationPerOrder ==
  \A i \in 1..Len(orders) :
    /\ Cardinality(CombineSent(i, "removetag")) + Cardinality(CombineSent(i, "createorder")) <= 1
    /\ pc = "done"
         => /\ Cardinality(CombineSent(i, "removetag")) = 1
                 <=> (HasSplitTag(i) /\ (~SharesAddress(i) \/ HasNote(i)))
            /\ Cardinality(CombineSent(i, "createorder")) = 1
                 <=> (SharesAddress(i) /\ ~HasSplitTag(i) /\ ~HasNote(i))

=============================================================================
